---- MODULE Spec2Model ----
(***************************************************************************)
(* Cool-Companion: the SQLite connection pool (models/database.py) and the *)
(* camera / barcode-scan service (services/camera_service.py) as state     *)
(* machines.                                                               *)
(***************************************************************************)
EXTENDS Integers, Sequences, FiniteSets, TLC

(* ------------------------------ bounds -------------------------------- *)
\* pool_size of the DatabasePool under check (settings.connection_pool_size).
PoolSize == 1
\* Threads that enter get_connection scopes.
NumThreads == 2
\* How many times the environment corrupts a checked-out connection.
MaxCorrupt == 1
\* How many close_all calls are made in a run.
MaxCloseCalls == 2

\* Barcodes one frame can hold.
MaxCodesPerFrame == 1
\* The highest device index there is (settings.camera_index allows 0..10).
MaxCameraIndex == 3
\* The last day of the calendar; days are numbered from 0.
MaxDay == 4
\* How many rows are inserted into the items table in a run.
MaxItems == 2
MaxRows == 2
RepoPoolSize == 2
\* BARCODE_DEBOUNCE_SECONDS, in ticks of the clock.
DebounceTime == 2

Threads == 1..NumThreads
\* The callers of close_all: an explicit call and the atexit hook (line 36).
Closers == {"caller", "atexit"}
ConnIds == 1..(PoolSize + MaxCorrupt)
NoConn  == 0

VARIABLES
    \* ---- DatabasePool ----
    queue,      \* self._connections: FIFO of the ids of the pooled connections
    closed,     \* self._closed
    lock,       \* self._lock: "free", or the closer holding it
    connState,  \* per connection id: "unopened", "open", "corrupt", "closed"
    closeCalls, \* per connection id: how many times close() ran on it
    nextConn,   \* how many connections _create_connection has opened
    tpc,        \* per thread: its place in get_connection
    conn,       \* per thread: the local conn of its scope (NoConn: none)
    valid,      \* per thread: the local connection_valid
    result,     \* per thread: how its get_connection call ends: "none" in the
                \* scope, then the way the body was left (its exception is
                \* re-raised once finally has run), or "pool_closed"
    cpc,        \* per closer: its place in close_all
    closeDone,  \* close_all calls that have returned
    dbUp,       \* the environment: whether sqlite3.connect can open the file
    corrupted,  \* connections the environment has corrupted so far
    probeFailed \* connections whose post-error probe failed

poolVars == <<queue, closed, lock, connState, closeCalls, nextConn, tpc, conn,
              valid, result, cpc, closeDone, dbUp, corrupted, probeFailed>>

VARIABLES
    \* ---- CameraService ----
    avail,              \* the environment: the device indices that can be opened
    cap,                \* self.cap: "none", "open" (an opened VideoCapture),
                        \* "stale" (a VideoCapture whose device has gone),
                        \* "released" (one whose release() is under way)
    startResult,        \* what the last direct start_camera call did: "True",
                        \* "CameraError" (raised); "none" before any call
    camera_index,       \* self.camera_index
    is_running,         \* self.is_running
    keep_alive_running, \* self._keep_alive_running
    scan_in_progress,   \* self._scan_in_progress
    rlock,              \* self._lock: "free", or the thread holding it
                        \* ("main" while stop_camera waits in join)
    scan_callback,      \* self._scan_callback is set
    last_barcode,       \* self._last_barcode ("None" before any detection)
    sinceLast,          \* the clock: time.time() - self._last_barcode_time,
                        \* counted up to DebounceTime + 1
    kpc,                \* per keep-alive thread: its place in keep_alive_loop
    cpcx,               \* the continuous-scan thread: its place in
                        \* _continuous_scan_loop ("dead": not alive)
    spc,                \* the single-shot worker: its place in scan_barcode_sync
    scanTimedOut,       \* the clock: time.time() - start_time of the scan
                        \* has reached timeout
    stopFlag,           \* what the caller's stop_flag() returns
    mpc,                \* the thread calling the service: its place in a call
    \* ---- what happened since a call ----
    scanDisturbed,      \* a stop call ran while the scan in progress ran
    contStopAsked,      \* a stop call ran since the live scan thread started
    closedSince,        \* stop_camera has returned and no start_camera,
                        \* start_keep_alive or scan call was made since
    sdecoded,           \* barcode_data of the single-shot loop: barcodes[0]
                        \* of the frame it decoded ("None": no barcode)
    sage,               \* the clock: time.time() - current_time of the
                        \* single-shot loop, between its test and line 366
    cframe,             \* the barcodes of the decoded frame that the for
                        \* loop of the continuous loop has yet to finish
    cage                \* the clock: time.time() - current_time of the
                        \* continuous loop, between its test and line 447

camVars == <<avail, cap, startResult, camera_index, is_running, keep_alive_running,
             scan_in_progress, rlock, scan_callback, last_barcode, sinceLast,
             kpc, cpcx, spc, scanTimedOut, stopFlag, mpc,
             scanDisturbed, contStopAsked, closedSince, sdecoded, sage,
             cframe, cage>>

VARIABLES
    \* ---- ItemRepository and the items table ----
    today,      \* the environment: date.today(), as a day number
    items,      \* the items table: per id of a stored row, the row
    nextItemId, \* the id AUTOINCREMENT gives the next inserted row
    reply       \* what the last repository call was and what it returned

itemVars == <<today, items, nextItemId, reply>>

VARIABLES
    \* ---- BarcodeService and the barcode_lookup table ----
    cache,      \* the barcode_lookup table: per cached barcode, its row
    awaited,    \* the barcodes lru_cache holds a coroutine of
                \* OpenFoodFactsLookup.lookup for
    bpc,        \* where lookup_product is: "idle" or "external" (awaiting
                \* the answer of the API)
    bcode,      \* the barcode the lookup_product under way was called with
    breply      \* what the last BarcodeService or BarcodeRepository call left
                \* for its caller

barcodeVars == <<cache, awaited, bpc, bcode, breply>>

VARIABLES
    \* ---- the database file ----
    writer      \* the pooled connection whose write transaction is open, or
                \* NoConn

repoVars == <<itemVars, barcodeVars, writer>>

VARIABLES
    \* ---- calls under way on several threads at once ----
    dpc,         \* per thread that uses the camera: its place in the
                 \* `with self._lock` block it runs ("out": in none)
    togglePc,    \* per thread calling toggle_opened_status: "idle", or
                 \* "update" between its get_by_id and its update
    toggleItem,  \* per such thread: its local `item`
    toggledTrue  \* per item id: how many toggle_opened_status calls on it
                 \* returned True

callVars == <<dpc, togglePc, toggleItem, toggledTrue>>

vars == <<poolVars, camVars, repoVars, callVars>>

\* The threads that use the device handle self.cap: the keep-alive loop,
\* scan_barcode_sync, the continuous scan loop, and callers of get_frame,
\* start_camera and stop_camera.
DeviceThreads == {"keep_alive", "scan", "continuous", "get_frame",
                  "start_camera", "stop_camera"}
\* The threads that call toggle_opened_status.
NumTogglers == 2
Togglers == 1..NumTogglers

(* --------------------------- helper operators -------------------------- *)
SeqSet(s) == {s[i] : i \in 1..Len(s)}

\* sqlite3.Connection.close() on connection c.
CloseConn(c) ==
    /\ connState' = [connState EXCEPT ![c] = "closed"]
    /\ closeCalls' = [closeCalls EXCEPT ![c] = @ + 1]

\* The threads whose scope holds a connection, and the threads holding c.
CheckedOut == {t \in Threads : conn[t] # NoConn}
HoldersOf(c) == {t \in Threads : conn[t] = c}

(* ------------------------------- Init ---------------------------------- *)
\* DatabasePool.__init__ with _initialize_pool: pool_size open connections queued.
PoolWith(pool_size) ==
    /\ queue = [i \in 1..pool_size |-> i]
    /\ closed = FALSE
    /\ lock = "free"
    /\ connState = [c \in ConnIds |-> IF c <= pool_size THEN "open" ELSE "unopened"]
    /\ closeCalls = [c \in ConnIds |-> 0]
    /\ nextConn = pool_size
    /\ tpc = [t \in Threads |-> "idle"]
    /\ conn = [t \in Threads |-> NoConn]
    /\ valid = [t \in Threads |-> TRUE]
    /\ result = [t \in Threads |-> "none"]
    /\ cpc = [k \in Closers |-> "idle"]
    /\ closeDone = 0
    /\ dbUp = TRUE
    /\ corrupted = 0
    /\ probeFailed = {}

PoolInit == PoolWith(PoolSize)

(* ------------------------- Item (models/item.py) ----------------------- *)
Days == 0..MaxDay
\* opened_date is None / NULL.
NoDate == -1
\* A stored expiry_date that date.fromisoformat cannot parse: text that is
\* no ISO date and that SQLite orders after every date.
CorruptDate == MaxDay + 1
ItemIds == 1..MaxItems
\* The names an Item is built with: two valid ones and the empty string.
Names == {"a", "b"}
NameInputs == Names \cup {""}
\* The names and expiry dates the caller of create and update passes: a
\* name or the empty one; a date that is not after any today, or not before.
NewNames == {"a", ""}
NewExpiries == {0, MaxDay}

\* Item.__post_init__ raises ValueError.
ValueError == [error |-> "ValueError"]

\* Item.__post_init__ (lines 18-77) on Item(id, name, expiry_date, is_opened,
\* opened_date): the validated item, or ValueError. An opened item without
\* a date gets today, an unopened one loses its date, and a date in the
\* future is refused.
ItemNew(id, name, expiry, opened, odate) ==
    LET od == IF opened /\ odate = NoDate THEN today
              ELSE IF ~opened THEN NoDate
              ELSE odate
    IN IF name = "" THEN ValueError
       ELSE IF od # NoDate /\ od > today THEN ValueError
       ELSE [id |-> id, name |-> name, expiry_date |-> expiry,
             is_opened |-> opened, opened_date |-> od]

\* Item.is_expired (lines 88-91).
IsExpired(item) == item.expiry_date < today

\* Item.days_until_expiry (lines 93-96).
DaysUntilExpiry(item) == item.expiry_date - today

\* Lines 98-102 with the lower end of the range excluded.
IsExpiringSoonStrict(item) ==
    0 < DaysUntilExpiry(item) /\ DaysUntilExpiry(item) <= 3

\* Item.is_expiring_soon (lines 98-102).
IsExpiringSoon(item) ==
    0 <= DaysUntilExpiry(item) /\ DaysUntilExpiry(item) <= 3

\* Item.status (lines 104-114).
Status(item) ==
    IF IsExpired(item) THEN "expired"
    ELSE IF IsExpiringSoon(item) THEN "expiring_soon"
    ELSE IF item.is_opened THEN "opened"
    ELSE "fresh"

\* ItemRepository._row_to_item (lines 421-458) on the stored row with this
\* id: an expiry_date that does not parse is replaced by date.today()
\* (lines 434-439), then Item(...) is built from the columns.
RowToItem(id) ==
    ItemNew(id, items[id].name,
            IF items[id].expiry_date = CorruptDate THEN today
            ELSE items[id].expiry_date,
            items[id].is_opened, items[id].opened_date)

\* Nothing has been called yet.
NoReply == [op |-> "none", arg |-> "none", out |-> "none", raised |-> "none"]

\* No toggle_opened_status call is under way, none has returned.
TogglesIdle ==
    /\ togglePc = [t \in Togglers |-> "idle"]
    /\ toggleItem = [t \in Togglers |-> ValueError]
    /\ toggledTrue = [id \in ItemIds |-> 0]

\* An empty items table.
ItemInit ==
    /\ today = 0
    /\ items = <<>>
    /\ nextItemId = 1
    /\ reply = NoReply
    /\ TogglesIdle

\* The barcodes looked up: one of a product, and one of the produce
\* entries that init_database stores (barcode LIKE 'PRODUCE_%').
ProduceCodes == {"PRODUCE_APPLE"}
Barcodes == {"5000112"} \cup ProduceCodes
BarcodeInputs == Barcodes \cup {""}
\* The `days` arguments of cleanup_old_entries.
CleanupDays == {1, 2}

NoBarcodeReply == [op |-> "none", barcode |-> "", source |-> "none", raised |-> "none"]

\* BarcodeService.__init__ after init_database: the produce entries are
\* cached, no lookup was made.
BarcodeInit ==
    /\ cache = [b \in ProduceCodes |-> [last_used |-> 0]]
    /\ awaited = {}
    /\ bpc = "idle"
    /\ bcode = ""
    /\ breply = NoBarcodeReply

RepoInit == ItemInit /\ BarcodeInit /\ writer = NoConn

(* --------------------------- get_connection ---------------------------- *)
\* Lines 78-79 without the closed check.
GetCheckIgnoringClosed(t) ==
    /\ tpc[t] = "idle"
    /\ tpc' = [tpc EXCEPT ![t] = "get"]
    /\ result' = [result EXCEPT ![t] = "none"]
    /\ UNCHANGED <<camVars, repoVars, callVars, dbUp, queue, closed, lock, connState, closeCalls, nextConn, conn,
                   valid, cpc, closeDone, corrupted, probeFailed>>

\* Lines 78-79: the closed check that opens get_connection.
GetCheck(t) ==
    /\ tpc[t] = "idle"
    /\ IF closed
         THEN /\ result' = [result EXCEPT ![t] = "pool_closed"]
              /\ UNCHANGED tpc
         ELSE /\ tpc' = [tpc EXCEPT ![t] = "get"]
              /\ result' = [result EXCEPT ![t] = "none"]
    /\ UNCHANGED <<camVars, repoVars, callVars, dbUp, queue, closed, lock, connState, closeCalls, nextConn, conn,
                   valid, cpc, closeDone, corrupted, probeFailed>>

\* Lines 81-85 with a get that leaves the connection in the queue.
GetTakePeeking(t) ==
    /\ tpc[t] = "get"
    /\ queue # <<>>
    /\ conn' = [conn EXCEPT ![t] = Head(queue)]
    /\ valid' = [valid EXCEPT ![t] = TRUE]
    /\ tpc' = [tpc EXCEPT ![t] = "body"]
    /\ UNCHANGED <<camVars, repoVars, callVars, dbUp, queue, closed, lock, connState, closeCalls, nextConn, result,
                   cpc, closeDone, corrupted, probeFailed>>

\* Lines 81-85 with a get that does not block on an empty queue but opens a
\* connection of its own.
GetTakeNotBlocking(t) ==
    /\ tpc[t] = "get"
    /\ IF queue # <<>>
         THEN /\ conn' = [conn EXCEPT ![t] = Head(queue)]
              /\ queue' = Tail(queue)
              /\ UNCHANGED <<nextConn, connState>>
         ELSE /\ nextConn < PoolSize + MaxCorrupt
              /\ nextConn' = nextConn + 1
              /\ connState' = [connState EXCEPT ![nextConn + 1] = "open"]
              /\ conn' = [conn EXCEPT ![t] = nextConn + 1]
              /\ UNCHANGED queue
    /\ valid' = [valid EXCEPT ![t] = TRUE]
    /\ tpc' = [tpc EXCEPT ![t] = "body"]
    /\ UNCHANGED <<camVars, repoVars, callVars, dbUp, closed, lock, closeCalls, result, cpc, closeDone, corrupted,
                   probeFailed>>

\* Lines 81-85: the blocking Queue.get, connection_valid = True, yield conn.
GetTake(t) ==
    /\ tpc[t] = "get"
    /\ queue # <<>>
    /\ conn' = [conn EXCEPT ![t] = Head(queue)]
    /\ queue' = Tail(queue)
    /\ valid' = [valid EXCEPT ![t] = TRUE]
    /\ tpc' = [tpc EXCEPT ![t] = "body"]
    /\ UNCHANGED <<camVars, repoVars, callVars, dbUp, closed, lock, connState, closeCalls, nextConn, result,
                   cpc, closeDone, corrupted, probeFailed>>

\* The environment: the connection a scope holds becomes unusable.
Corrupt(t) ==
    /\ tpc[t] = "body"
    /\ connState[conn[t]] = "open"
    /\ corrupted < MaxCorrupt
    /\ connState' = [connState EXCEPT ![conn[t]] = "corrupt"]
    /\ corrupted' = corrupted + 1
    /\ UNCHANGED <<camVars, repoVars, callVars, dbUp, queue, closed, lock, closeCalls, nextConn, tpc, conn, valid,
                   result, cpc, closeDone, probeFailed>>

\* Line 85: the scope body returns normally.
BodyReturn(t) ==
    /\ tpc[t] = "body"
    /\ result' = [result EXCEPT ![t] = "returned"]
    /\ tpc' = [tpc EXCEPT ![t] = "fin"]
    /\ UNCHANGED <<camVars, repoVars, callVars, dbUp, queue, closed, lock, connState, closeCalls, nextConn, conn,
                   valid, cpc, closeDone, corrupted, probeFailed>>

\* Lines 86-100 with the probe's verdict dropped.
BodySqliteErrorNoProbe(t) ==
    /\ tpc[t] = "body"
    /\ result' = [result EXCEPT ![t] = "raised_sqlite"]
    /\ probeFailed' = IF connState[conn[t]] = "open"
                        THEN probeFailed ELSE probeFailed \cup {conn[t]}
    /\ tpc' = [tpc EXCEPT ![t] = "fin"]
    /\ UNCHANGED <<camVars, repoVars, callVars, dbUp, queue, closed, lock, connState, closeCalls, nextConn, conn,
                   valid, cpc, closeDone, corrupted>>

\* Lines 86-100: sqlite3.Error in the body: rollback, then the SELECT 1 probe,
\* which fails on a connection that is no longer usable.
BodySqliteError(t) ==
    /\ tpc[t] = "body"
    /\ result' = [result EXCEPT ![t] = "raised_sqlite"]
    /\ valid' = [valid EXCEPT ![t] = (connState[conn[t]] = "open")]
    /\ probeFailed' = IF connState[conn[t]] = "open"
                        THEN probeFailed ELSE probeFailed \cup {conn[t]}
    /\ tpc' = [tpc EXCEPT ![t] = "fin"]
    /\ UNCHANGED <<camVars, repoVars, callVars, dbUp, queue, closed, lock, connState, closeCalls, nextConn, conn,
                   cpc, closeDone, corrupted>>

\* Lines 101-107 as they would be with no finally clause behind them.
BodyOtherErrorNoFinally(t) ==
    /\ tpc[t] = "body"
    /\ result' = [result EXCEPT ![t] = "raised_other"]
    /\ tpc' = [tpc EXCEPT ![t] = "idle"]
    /\ UNCHANGED <<camVars, repoVars, callVars, dbUp, queue, closed, lock, connState, closeCalls, nextConn, conn,
                   valid, cpc, closeDone, corrupted, probeFailed>>

\* Lines 101-107: any other exception in the body: rollback, re-raise.
BodyOtherError(t) ==
    /\ tpc[t] = "body"
    /\ result' = [result EXCEPT ![t] = "raised_other"]
    /\ tpc' = [tpc EXCEPT ![t] = "fin"]
    /\ UNCHANGED <<camVars, repoVars, callVars, dbUp, queue, closed, lock, connState, closeCalls, nextConn, conn,
                   valid, cpc, closeDone, corrupted, probeFailed>>

\* Line 110: finally reads connection_valid and self._closed.
FinCheck(t) ==
    /\ tpc[t] = "fin"
    /\ tpc' = [tpc EXCEPT ![t] = IF valid[t] /\ ~closed THEN "put" ELSE "close"]
    /\ UNCHANGED <<camVars, repoVars, callVars, dbUp, queue, closed, lock, connState, closeCalls, nextConn, conn,
                   valid, result, cpc, closeDone, corrupted, probeFailed>>

\* Line 111: self._connections.put(conn) (blocks while the queue is full).
FinPut(t) ==
    /\ tpc[t] = "put"
    /\ Len(queue) < PoolSize
    /\ queue' = Append(queue, conn[t])
    /\ conn' = [conn EXCEPT ![t] = NoConn]
    /\ tpc' = [tpc EXCEPT ![t] = "idle"]
    /\ UNCHANGED <<camVars, repoVars, callVars, dbUp, closed, lock, connState, closeCalls, nextConn, valid, result,
                   cpc, closeDone, corrupted, probeFailed>>

\* Lines 113-119: conn.close(), then the second read of self._closed.
FinClose(t) ==
    /\ tpc[t] = "close"
    /\ CloseConn(conn[t])
    /\ conn' = [conn EXCEPT ![t] = NoConn]
    /\ valid' = [valid EXCEPT ![t] = TRUE]
    /\ tpc' = [tpc EXCEPT ![t] = IF closed THEN "idle" ELSE "replace"]
    /\ UNCHANGED <<camVars, repoVars, callVars, dbUp, queue, closed, lock, nextConn, result, cpc, closeDone,
                   corrupted, probeFailed>>

\* Lines 120-125: _create_connection() and put; a failure to open the new
\* connection is caught and logged.
FinReplace(t) ==
    /\ tpc[t] = "replace"
    /\ IF dbUp
         THEN /\ Len(queue) < PoolSize
              /\ nextConn' = nextConn + 1
              /\ connState' = [connState EXCEPT ![nextConn + 1] = "open"]
              /\ queue' = Append(queue, nextConn + 1)
         ELSE UNCHANGED <<nextConn, connState, queue>>
    /\ tpc' = [tpc EXCEPT ![t] = "idle"]
    /\ UNCHANGED <<camVars, repoVars, callVars, dbUp, closed, lock, closeCalls, conn, valid, result, cpc,
                   closeDone, corrupted, probeFailed>>

\* The environment: the database file becomes unreachable, or reachable again.
DbFlip ==
    /\ dbUp' = ~dbUp
    /\ UNCHANGED <<camVars, repoVars, callVars, queue, closed, lock, connState, closeCalls, nextConn,
                   tpc, conn, valid, result, cpc, closeDone, corrupted, probeFailed>>

(* ------------------------------ close_all ------------------------------ *)
\* A close_all call may start: the run makes at most MaxCloseCalls of them.
MayCallCloseAll ==
    closeDone + Cardinality({j \in Closers : cpc[j] # "idle"}) < MaxCloseCalls

\* Lines 139-144 without the early return on self._closed.
CloseAllEnterNoCheck(k) ==
    /\ cpc[k] = "idle"
    /\ lock = "free"
    /\ MayCallCloseAll
    /\ closed' = TRUE
    /\ lock' = k
    /\ cpc' = [cpc EXCEPT ![k] = "drain"]
    /\ UNCHANGED <<camVars, repoVars, callVars, dbUp, closeDone, queue, connState, closeCalls, nextConn, tpc, conn,
                   valid, result, corrupted, probeFailed>>

\* Lines 139-144: take self._lock, return if already closed, else mark closed.
CloseAllEnter(k) ==
    /\ cpc[k] = "idle"
    /\ lock = "free"
    /\ MayCallCloseAll
    /\ IF closed
         THEN /\ closeDone' = closeDone + 1
              /\ UNCHANGED <<closed, lock, cpc>>
         ELSE /\ closed' = TRUE
              /\ lock' = k
              /\ cpc' = [cpc EXCEPT ![k] = "drain"]
              /\ UNCHANGED closeDone
    /\ UNCHANGED <<camVars, repoVars, callVars, dbUp, queue, connState, closeCalls, nextConn, tpc, conn, valid,
                   result, corrupted, probeFailed>>

\* Line 146: while not self._connections.empty(); lines 154-155 when it is.
DrainCheck(k) ==
    /\ cpc[k] = "drain"
    /\ IF queue = <<>>
         THEN /\ cpc' = [cpc EXCEPT ![k] = "idle"]
              /\ lock' = "free"
              /\ closeDone' = closeDone + 1
         ELSE /\ cpc' = [cpc EXCEPT ![k] = "drainget"]
              /\ UNCHANGED <<lock, closeDone>>
    /\ UNCHANGED <<camVars, repoVars, callVars, dbUp, queue, closed, connState, closeCalls, nextConn, tpc, conn,
                   valid, result, corrupted, probeFailed>>

\* Lines 147-152: get_nowait and close; queue.Empty is caught and logged.
DrainGet(k) ==
    /\ cpc[k] = "drainget"
    /\ IF queue # <<>>
         THEN /\ queue' = Tail(queue)
              /\ CloseConn(Head(queue))
         ELSE UNCHANGED <<queue, connState, closeCalls>>
    /\ cpc' = [cpc EXCEPT ![k] = "drain"]
    /\ UNCHANGED <<camVars, repoVars, callVars, dbUp, closed, lock, nextConn, tpc, conn, valid, result,
                   closeDone, corrupted, probeFailed>>

(* ============================ CameraService ============================ *)
\* The strings pyzbar can decode from a frame.
Codes == {"A", "B"}
\* The barcodes of one frame, in the order pyzbar.decode lists them.
Frames == UNION {[1..n -> Codes] : n \in 0..MaxCodesPerFrame}
\* The alternate indices start_camera falls back to (line 162).
Alternates == {0, 1, 2}
\* The devices present in a run: one that start_camera reaches through its
\* fallback (and, once recorded as camera_index, directly), or none.
AvailChoices == {{1}, {}}
\* The keep-alive threads alive at once: the one start_keep_alive started
\* last, and one from an earlier start that has not ended yet.
KeepAliveSlots == {"first", "second"}

\* The indices a device can have and camera_index can be set to.
Devices == 0..MaxCameraIndex

\* CameraService.__init__ (lines 92-104): every field but camera_index.
CamFields ==
    /\ cap = "none"
    /\ startResult = "none"
    /\ is_running = FALSE
    /\ keep_alive_running = FALSE
    /\ scan_in_progress = FALSE
    /\ rlock = "free"
    /\ scan_callback = FALSE
    /\ last_barcode = "None"
    /\ sinceLast = DebounceTime + 1
    /\ kpc = [k \in KeepAliveSlots |-> "dead"]
    /\ cpcx = "dead"
    /\ spc = "idle"
    /\ scanTimedOut = FALSE
    /\ stopFlag = FALSE
    /\ mpc = "idle"
    /\ scanDisturbed = FALSE
    /\ contStopAsked = FALSE
    /\ closedSince = FALSE
    /\ sdecoded = "None"
    /\ sage = 0
    /\ cframe = <<>>
    /\ cage = 0
    /\ dpc = [t \in DeviceThreads |-> "out"]

\* CameraService.__init__ with settings.camera_index = 0 (lines 92-93).
CamConstructed == camera_index = 0 /\ CamFields

CamInit == avail \in AvailChoices /\ CamConstructed

\* Lines 156-168: the index _open_camera succeeds on, the configured one
\* first, then 0, 1, 2 in order; -1 when none opens.
OpenIndex ==
    IF camera_index \in avail THEN camera_index
    ELSE LET alt == (Alternates \ {camera_index}) \cap avail
         IN IF alt = {} THEN -1
            ELSE CHOOSE i \in alt : \A j \in alt : i <= j

\* Lines 142-196 without the alternate indices of lines 159-168.
StartCamNoFallback ==
    IF cap = "open"
      THEN [ok |-> TRUE, cap |-> "open", idx |-> camera_index,
            running |-> is_running]
    ELSE IF camera_index \in avail
      THEN [ok |-> TRUE, cap |-> "open", idx |-> camera_index,
            running |-> TRUE]
      ELSE [ok |-> FALSE, cap |-> "none", idx |-> camera_index,
            running |-> is_running]

\* start_camera (lines 142-196), run with self._lock held: what it returns
\* (ok FALSE: CameraError raised) and what it leaves in cap, camera_index
\* and is_running.
StartCam ==
    IF cap = "open"
      THEN [ok |-> TRUE, cap |-> "open", idx |-> camera_index,
            running |-> is_running]
    ELSE IF OpenIndex # -1
      THEN [ok |-> TRUE, cap |-> "open", idx |-> OpenIndex, running |-> TRUE]
      ELSE [ok |-> FALSE, cap |-> "none", idx |-> camera_index,
            running |-> is_running]

ApplyStartCam(r) ==
    /\ cap' = r.cap
    /\ camera_index' = r.idx
    /\ is_running' = r.running

\* Lines 362-363 and 443-444: the debounce test on a decoded barcode, from
\* the _last_barcode and the time since _last_barcode_time it reads.
DebouncePass(code, last, since) ==
    code # last \/ since > DebounceTime

\* A time span as the clock counts it: up to the first value past the
\* debounce window, where the test no longer changes.
Later(span) == IF span <= DebounceTime THEN span + 1 ELSE span

\* A stop call (stop_camera, stop_continuous_scan) runs: noted for the scan
\* and the scan thread that are under way.
NoteStopCall ==
    /\ scanDisturbed' = (scanDisturbed \/ spc # "idle")
    /\ contStopAsked' = (contStopAsked \/ cpcx # "dead")
(* ----------------------- calls made by the caller ---------------------- *)

\* start_camera called directly (lines 136-196): it returns True (lines
\* 144, 184) or raises CameraError (line 196).
StartCameraCall ==
    /\ mpc = "idle"
    /\ rlock = "free"
    /\ ApplyStartCam(StartCam)
    /\ startResult' = IF StartCam.ok THEN "True" ELSE "CameraError"
    /\ closedSince' = FALSE
    /\ UNCHANGED <<poolVars, repoVars, callVars, avail, keep_alive_running,
                   scan_in_progress, rlock, scan_callback, last_barcode,
                   sinceLast, kpc, cpcx, spc, scanTimedOut, stopFlag, mpc,
                   scanDisturbed, contStopAsked, sdecoded, sage, cframe,
                   cage>>

\* start_keep_alive (lines 198-249): under the lock, return if keep-alive
\* runs, start the camera (CameraError propagates), set the flag; then
\* create and start the thread (self._keep_alive_thread, which only the
\* join of stop_keep_alive reads, is not kept).
StartKeepAlive ==
    /\ mpc = "idle"
    /\ rlock = "free"
    /\ closedSince' = FALSE
    /\ IF keep_alive_running
         THEN UNCHANGED <<cap, camera_index, is_running, keep_alive_running, kpc>>
         ELSE IF ~StartCam.ok
         THEN /\ ApplyStartCam(StartCam)
              /\ UNCHANGED <<keep_alive_running, kpc>>
         ELSE /\ ApplyStartCam(StartCam)
              /\ keep_alive_running' = TRUE
              /\ \E k \in KeepAliveSlots :
                    /\ kpc[k] = "dead"
                    /\ \A j \in KeepAliveSlots : kpc[j] = "dead" => k = "first" \/ j # "first"
                    /\ kpc' = [kpc EXCEPT ![k] = "top"]
    /\ UNCHANGED <<poolVars, repoVars, callVars, avail, startResult, scan_in_progress,
                   rlock, scan_callback, last_barcode, sinceLast, cpcx, spc,
                   scanTimedOut, stopFlag, mpc, scanDisturbed, contStopAsked,
                   sdecoded, sage, cframe, cage>>

\* stop_keep_alive (lines 251-257): clear the flag and join for at most 2 s;
\* the join returns whether or not the thread has ended.
StopKeepAlive ==
    /\ mpc = "idle"
    /\ keep_alive_running
    /\ keep_alive_running' = FALSE
    /\ UNCHANGED <<poolVars, repoVars, callVars, avail, startResult, cap, camera_index,
                   is_running, scan_in_progress, rlock, scan_callback,
                   last_barcode, sinceLast, kpc, cpcx, spc, scanTimedOut,
                   stopFlag, mpc, scanDisturbed, contStopAsked, closedSince,
                   sdecoded, sage, cframe, cage>>

\* stop_camera, line 262: stop_keep_alive().
StopCamBegin ==
    /\ mpc = "idle"
    /\ keep_alive_running' = FALSE
    /\ mpc' = "sc_lock"
    /\ NoteStopCall
    /\ UNCHANGED <<poolVars, repoVars, callVars, avail, startResult, cap, camera_index,
                   is_running, scan_in_progress, rlock, scan_callback,
                   last_barcode, sinceLast, kpc, cpcx, spc, scanTimedOut,
                   stopFlag, closedSince, sdecoded, sage, cframe, cage>>

\* Lines 264-279 with is_running toggled at line 265, not cleared.
StopCamLockToggling ==
    /\ mpc = "sc_lock"
    /\ rlock = "free"
    /\ is_running' = ~is_running
    /\ NoteStopCall
    /\ IF cpcx # "dead"
         THEN /\ rlock' = "main"
              /\ mpc' = "sc_join"
              /\ UNCHANGED <<cap, closedSince>>
         ELSE /\ cap' = "none"
              /\ mpc' = "idle"
              /\ closedSince' = TRUE
              /\ UNCHANGED rlock
    /\ UNCHANGED <<poolVars, repoVars, callVars, avail, startResult, camera_index,
                   keep_alive_running, scan_in_progress, scan_callback,
                   last_barcode, sinceLast, kpc, cpcx, spc, scanTimedOut,
                   stopFlag, sdecoded, sage, cframe, cage>>

\* stop_camera, lines 264-279: take the lock, clear is_running; with no scan
\* thread alive release the device at once, else wait in join, lock held.
StopCamLock ==
    /\ mpc = "sc_lock"
    /\ rlock = "free"
    /\ is_running' = FALSE
    /\ NoteStopCall
    /\ IF cpcx # "dead"
         THEN /\ rlock' = "main"
              /\ mpc' = "sc_join"
              /\ UNCHANGED <<cap, closedSince>>
         ELSE /\ cap' = "none"
              /\ mpc' = "idle"
              /\ closedSince' = TRUE
              /\ UNCHANGED rlock
    /\ UNCHANGED <<poolVars, repoVars, callVars, avail, startResult, camera_index,
                   keep_alive_running, scan_in_progress, scan_callback,
                   last_barcode, sinceLast, kpc, cpcx, spc, scanTimedOut,
                   stopFlag, sdecoded, sage, cframe, cage>>

\* stop_camera, lines 269-279: join(timeout=1.0) returns (the thread ended
\* or the wait timed out); release the device, cap = None, release the lock.
StopCamFinish ==
    /\ mpc = "sc_join"
    /\ cap' = "none"
    /\ rlock' = "free"
    /\ mpc' = "idle"
    /\ closedSince' = TRUE
    /\ NoteStopCall
    /\ UNCHANGED <<poolVars, repoVars, callVars, avail, startResult, camera_index,
                   is_running, keep_alive_running, scan_in_progress,
                   scan_callback, last_barcode, sinceLast, kpc, cpcx, spc,
                   scanTimedOut, stopFlag, sdecoded, sage, cframe, cage>>

\* start_continuous_scan (lines 395-408).
StartContinuousScan ==
    /\ mpc = "idle"
    /\ closedSince' = FALSE
    /\ IF cpcx # "dead"
         THEN UNCHANGED <<scan_callback, cpcx, contStopAsked>>
         ELSE /\ scan_callback' = TRUE
              /\ cpcx' = "new"
              /\ contStopAsked' = FALSE
    /\ UNCHANGED <<poolVars, repoVars, callVars, avail, startResult, cap, camera_index,
                   is_running, keep_alive_running, scan_in_progress, rlock,
                   last_barcode, sinceLast, kpc, spc, scanTimedOut, stopFlag,
                   mpc, scanDisturbed, sdecoded, sage, cframe, cage>>

\* stop_continuous_scan, lines 467-469: clear is_running, join for at most 1 s.
StopContBegin ==
    /\ mpc = "idle"
    /\ is_running' = FALSE
    /\ mpc' = "scs_join"
    /\ NoteStopCall
    /\ UNCHANGED <<poolVars, repoVars, callVars, avail, startResult, cap, camera_index,
                   keep_alive_running, scan_in_progress, rlock, scan_callback,
                   last_barcode, sinceLast, kpc, cpcx, spc, scanTimedOut,
                   stopFlag, closedSince, sdecoded, sage, cframe, cage>>

\* stop_continuous_scan, lines 470-471, once the join has returned.
StopContFinish ==
    /\ mpc = "scs_join"
    /\ scan_callback' = FALSE
    /\ scan_in_progress' = FALSE
    /\ mpc' = "idle"
    /\ NoteStopCall
    /\ UNCHANGED <<poolVars, repoVars, callVars, avail, startResult, cap, camera_index,
                   is_running, keep_alive_running, rlock, last_barcode,
                   sinceLast, kpc, cpcx, spc, scanTimedOut, stopFlag,
                   closedSince, sdecoded, sage, cframe, cage>>

(* -------------------------- keep_alive_loop ---------------------------- *)

\* Lines 219-224: the loop test and the pause while a scan is in progress.
KaTop(k) ==
    /\ kpc[k] = "top"
    /\ kpc' = [kpc EXCEPT ![k] = IF ~keep_alive_running THEN "dead"
                                 ELSE IF scan_in_progress THEN "top"
                                 ELSE "lock"]
    /\ UNCHANGED <<poolVars, repoVars, callVars, avail, startResult, cap, camera_index,
                   is_running, keep_alive_running, scan_in_progress, rlock,
                   scan_callback, last_barcode, sinceLast, cpcx, spc,
                   scanTimedOut, stopFlag, mpc, scanDisturbed, contStopAsked,
                   closedSince, sdecoded, sage, cframe, cage>>

\* Lines 226-241: under the lock, read a frame from an open camera, or
\* restart a closed one (a CameraError is caught and logged).
KaBody(k) ==
    /\ kpc[k] = "lock"
    /\ rlock = "free"
    /\ IF cap = "open"
         THEN UNCHANGED <<cap, camera_index, is_running>>
         ELSE ApplyStartCam(StartCam)
    /\ kpc' = [kpc EXCEPT ![k] = "top"]
    /\ UNCHANGED <<poolVars, repoVars, callVars, avail, startResult, keep_alive_running,
                   scan_in_progress, rlock, scan_callback, last_barcode,
                   sinceLast, cpcx, spc, scanTimedOut, stopFlag, mpc,
                   scanDisturbed, contStopAsked, closedSince, sdecoded, sage,
                   cframe, cage>>

(* -------------------------- scan_barcode_sync -------------------------- *)
\* Lines 374-382: the call returns (a barcode from line 369, None from line
\* 374) or raises (line 378); finally clears the pause flag.
ScanFinish ==
    /\ scan_in_progress' = FALSE
    /\ spc' = "idle"
    /\ scanTimedOut' = FALSE
    /\ stopFlag' = FALSE
    /\ scanDisturbed' = FALSE
    /\ sdecoded' = "None"
    /\ sage' = 0

\* Lines 296-302: the call; the pause flag is set.
ScanCall ==
    /\ spc = "idle"
    /\ scan_in_progress' = TRUE
    /\ spc' = "start"
    /\ scanDisturbed' = (mpc # "idle")
    /\ closedSince' = FALSE
    /\ UNCHANGED <<poolVars, repoVars, callVars, avail, startResult, cap, camera_index,
                   is_running, keep_alive_running, rlock, scan_callback,
                   last_barcode, sinceLast, kpc, cpcx, scanTimedOut, stopFlag,
                   mpc, contStopAsked, sdecoded, sage, cframe, cage>>

\* The caller's stop_flag starts to return True.
CancelScan ==
    /\ spc # "idle"
    /\ ~stopFlag
    /\ stopFlag' = TRUE
    /\ UNCHANGED <<poolVars, repoVars, callVars, avail, startResult, cap, camera_index,
                   is_running, keep_alive_running, scan_in_progress, rlock,
                   scan_callback, last_barcode, sinceLast, kpc, cpcx, spc,
                   scanTimedOut, mpc, scanDisturbed, contStopAsked,
                   closedSince, sdecoded, sage, cframe, cage>>

\* Lines 305-309 with start_camera called before the try statement, as the
\* continuous loop calls it: CameraError leaves the call past the finally.
ScanStartCameraNoFinally ==
    /\ spc = "start"
    /\ rlock = "free"
    /\ ApplyStartCam(StartCam)
    /\ IF StartCam.ok
         THEN /\ spc' = "top"
              /\ UNCHANGED <<scan_in_progress, scanTimedOut,
                             stopFlag, scanDisturbed, sdecoded, sage>>
         ELSE /\ spc' = "idle"
              /\ UNCHANGED <<scan_in_progress, scanTimedOut,
                             stopFlag, scanDisturbed, sdecoded, sage>>
    /\ UNCHANGED <<poolVars, repoVars, callVars, avail, startResult, keep_alive_running,
                   rlock, scan_callback, last_barcode, sinceLast, kpc, cpcx,
                   mpc, contStopAsked, closedSince, cframe, cage>>

\* Lines 305-309: start_camera under the lock, then start_time = now.
ScanStartCamera ==
    /\ spc = "start"
    /\ rlock = "free"
    /\ ApplyStartCam(StartCam)
    /\ IF StartCam.ok
         THEN /\ spc' = "top"
              /\ UNCHANGED <<scan_in_progress, scanTimedOut,
                             stopFlag, scanDisturbed, sdecoded, sage>>
         ELSE ScanFinish
    /\ UNCHANGED <<poolVars, repoVars, callVars, avail, startResult, keep_alive_running,
                   rlock, scan_callback, last_barcode, sinceLast, kpc, cpcx,
                   mpc, contStopAsked, closedSince, cframe, cage>>

\* Lines 312-316 and 374: the while test (is_running, the timeout), then
\* stop_flag; leaving the loop returns None.
ScanTop ==
    /\ spc = "top"
    /\ IF ~is_running \/ scanTimedOut \/ stopFlag
         THEN ScanFinish
         ELSE /\ spc' = "read"
              /\ UNCHANGED <<scan_in_progress, scanTimedOut,
                             stopFlag, scanDisturbed, sdecoded, sage>>
    /\ UNCHANGED <<poolVars, repoVars, callVars, avail, startResult, cap, camera_index,
                   is_running, keep_alive_running, rlock, scan_callback,
                   last_barcode, sinceLast, kpc, cpcx, mpc, contStopAsked,
                   closedSince, cframe, cage>>

\* Lines 318-358: read a frame under the lock (no handle: leave the loop
\* and return None). A failed read and a frame without a barcode go round
\* the loop; of a frame with barcodes, barcodes[0] is taken.
ScanRead ==
    /\ spc = "read"
    /\ rlock = "free"
    /\ IF cap # "open"
         THEN ScanFinish
         ELSE /\ \E f \in Frames :
                    /\ sdecoded' = IF f = <<>> THEN "None" ELSE f[1]
                    /\ spc' = IF f = <<>> THEN "top" ELSE "test"
              /\ sage' = 0
              /\ UNCHANGED <<scan_in_progress, scanTimedOut,
                             stopFlag, scanDisturbed>>
    /\ UNCHANGED <<poolVars, repoVars, callVars, avail, startResult, cap, camera_index,
                   is_running, keep_alive_running, rlock, scan_callback,
                   last_barcode, sinceLast, kpc, cpcx, mpc, contStopAsked,
                   closedSince, cframe, cage>>

\* Lines 361-363: current_time = time.time() and the debounce test; a
\* barcode that fails it is passed over (line 372, then the loop again).
ScanTest ==
    /\ spc = "test"
    /\ IF DebouncePass(sdecoded, last_barcode, sinceLast)
         THEN /\ spc' = "setcode"
              /\ UNCHANGED sdecoded
         ELSE /\ spc' = "top"
              /\ sdecoded' = "None"
    /\ sage' = 0
    /\ UNCHANGED <<poolVars, repoVars, callVars, avail, startResult, cap, camera_index,
                   is_running, keep_alive_running, scan_in_progress, rlock,
                   scan_callback, last_barcode, sinceLast, kpc, cpcx,
                   scanTimedOut, stopFlag, mpc, scanDisturbed, contStopAsked,
                   closedSince, cframe, cage>>

\* Line 365: self._last_barcode = barcode_data.
ScanSetCode ==
    /\ spc = "setcode"
    /\ last_barcode' = sdecoded
    /\ spc' = "settime"
    /\ UNCHANGED <<poolVars, repoVars, callVars, avail, startResult, cap, camera_index,
                   is_running, keep_alive_running, scan_in_progress, rlock,
                   scan_callback, sinceLast, kpc, cpcx, scanTimedOut,
                   stopFlag, mpc, scanDisturbed, contStopAsked, closedSince,
                   sdecoded, sage, cframe, cage>>

\* Lines 366-369: self._last_barcode_time = current_time; return barcode_data.
ScanDetect ==
    /\ spc = "settime"
    /\ sinceLast' = sage
    /\ ScanFinish
    /\ UNCHANGED <<poolVars, repoVars, callVars, avail, startResult, cap, camera_index,
                   is_running, keep_alive_running, rlock, scan_callback,
                   last_barcode, kpc, cpcx, mpc, contStopAsked, closedSince,
                   cframe, cage>>

(* ------------------------ _continuous_scan_loop ------------------------ *)
\* The scan thread ends.
ContExit ==
    /\ cpcx' = "dead"
    /\ contStopAsked' = FALSE

\* Lines 412-414: the thread starts and sets the pause flag.
ContBegin ==
    /\ cpcx = "new"
    /\ scan_in_progress' = TRUE
    /\ cpcx' = "start"
    /\ UNCHANGED <<poolVars, repoVars, callVars, avail, startResult, cap, camera_index,
                   is_running, keep_alive_running, rlock, scan_callback,
                   last_barcode, sinceLast, kpc, spc, scanTimedOut, stopFlag,
                   mpc, scanDisturbed, contStopAsked, closedSince, sdecoded,
                   sage, cframe, cage>>

\* Lines 416-423: start_camera under the lock; on CameraError the thread
\* returns from here, before the try whose finally clears the pause flag.
ContStartCamera ==
    /\ cpcx = "start"
    /\ rlock = "free"
    /\ ApplyStartCam(StartCam)
    /\ IF StartCam.ok
         THEN /\ cpcx' = "top"
              /\ UNCHANGED contStopAsked
         ELSE ContExit
    /\ UNCHANGED scan_in_progress
    /\ UNCHANGED <<poolVars, repoVars, callVars, avail, startResult, keep_alive_running,
                   rlock, scan_callback, last_barcode, sinceLast, kpc, spc,
                   scanTimedOut, stopFlag, mpc, scanDisturbed, closedSince,
                   sdecoded, sage, cframe, cage>>

\* Line 426 and lines 462-463: the while test; the loop's end clears the flag.
ContTop ==
    /\ cpcx = "top"
    /\ IF is_running
         THEN /\ cpcx' = "read"
              /\ UNCHANGED <<scan_in_progress, contStopAsked>>
         ELSE /\ ContExit
              /\ scan_in_progress' = FALSE
    /\ UNCHANGED <<poolVars, repoVars, callVars, avail, startResult, cap, camera_index,
                   is_running, keep_alive_running, rlock, scan_callback,
                   last_barcode, sinceLast, kpc, spc, scanTimedOut, stopFlag,
                   mpc, scanDisturbed, closedSince, sdecoded, sage, cframe,
                   cage>>

\* Lines 427-437: read a frame under the lock (no handle: leave the loop);
\* a failed read goes round the loop, a frame is decoded.
ContRead ==
    /\ cpcx = "read"
    /\ rlock = "free"
    /\ IF cap # "open"
         THEN /\ ContExit
              /\ scan_in_progress' = FALSE
              /\ UNCHANGED cframe
         ELSE /\ \E f \in Frames :
                    /\ cframe' = f
                    /\ cpcx' = IF f = <<>> THEN "top" ELSE "test"
              /\ UNCHANGED <<scan_in_progress, contStopAsked>>
    /\ UNCHANGED <<poolVars, repoVars, callVars, avail, startResult, cap, camera_index,
                   is_running, keep_alive_running, rlock, scan_callback,
                   last_barcode, sinceLast, kpc, spc, scanTimedOut, stopFlag,
                   mpc, scanDisturbed, closedSince, sdecoded, sage, cage>>

\* Lines 438-444: the next barcode of the frame, current_time = time.time()
\* and the debounce test; a barcode that fails it is passed over.
ContTest ==
    /\ cpcx = "test"
    /\ IF DebouncePass(Head(cframe), last_barcode, sinceLast)
         THEN /\ cpcx' = "setcode"
              /\ UNCHANGED cframe
         ELSE /\ cframe' = Tail(cframe)
              /\ cpcx' = IF Tail(cframe) = <<>> THEN "top" ELSE "test"
    /\ cage' = 0
    /\ UNCHANGED <<poolVars, repoVars, callVars, avail, startResult, cap, camera_index,
                   is_running, keep_alive_running, scan_in_progress, rlock,
                   scan_callback, last_barcode, sinceLast, kpc, spc,
                   scanTimedOut, stopFlag, mpc, scanDisturbed, contStopAsked,
                   closedSince, sdecoded, sage>>

\* Line 446: self._last_barcode = barcode_data.
ContSetCode ==
    /\ cpcx = "setcode"
    /\ last_barcode' = Head(cframe)
    /\ cpcx' = "settime"
    /\ UNCHANGED <<poolVars, repoVars, callVars, avail, startResult, cap, camera_index,
                   is_running, keep_alive_running, scan_in_progress, rlock,
                   scan_callback, sinceLast, kpc, spc, scanTimedOut, stopFlag,
                   mpc, scanDisturbed, contStopAsked, closedSince, sdecoded,
                   sage, cframe, cage>>

\* Lines 447-456: self._last_barcode_time = current_time; the callback is
\* called with the barcode when scan_callback is set at this step; then the
\* next barcode or the loop.
ContDetect ==
    /\ cpcx = "settime"
    /\ sinceLast' = cage
    /\ cframe' = Tail(cframe)
    /\ cpcx' = IF Tail(cframe) = <<>> THEN "top" ELSE "test"
    /\ cage' = 0
    /\ UNCHANGED <<poolVars, repoVars, callVars, avail, startResult, cap, camera_index,
                   is_running, keep_alive_running, scan_in_progress, rlock,
                   scan_callback, last_barcode, kpc, spc, scanTimedOut,
                   stopFlag, mpc, scanDisturbed, contStopAsked, closedSince,
                   sdecoded, sage>>

(* ------------------------------ the clock ------------------------------ *)

\* The timeout of the scan under way elapses (line 312: the time since
\* start_time reaches timeout).
ScanTimeoutElapses ==
    /\ spc \in {"top", "read"}
    /\ ~scanTimedOut
    /\ scanTimedOut' = TRUE
    /\ UNCHANGED <<poolVars, repoVars, callVars, avail, startResult, cap, camera_index,
                   is_running, keep_alive_running, scan_in_progress, rlock,
                   scan_callback, last_barcode, sinceLast, kpc, cpcx, spc,
                   stopFlag, mpc, scanDisturbed, contStopAsked, closedSince,
                   sdecoded, sage, cframe, cage>>

\* One second passes: the time since _last_barcode_time grows, and so does
\* the time since a loop between its test and line 366/447 took current_time.
Tick ==
    /\ \/ sinceLast <= DebounceTime
       \/ spc \in {"setcode", "settime"} /\ sage <= DebounceTime
       \/ cpcx \in {"setcode", "settime"} /\ cage <= DebounceTime
    /\ sinceLast' = Later(sinceLast)
    /\ sage' = IF spc \in {"setcode", "settime"} THEN Later(sage) ELSE sage
    /\ cage' = IF cpcx \in {"setcode", "settime"} THEN Later(cage) ELSE cage
    /\ UNCHANGED <<poolVars, repoVars, callVars, avail, startResult, cap, camera_index,
                   is_running, keep_alive_running, scan_in_progress, rlock,
                   scan_callback, last_barcode, kpc, cpcx, spc, scanTimedOut,
                   stopFlag, mpc, scanDisturbed, contStopAsked, closedSince,
                   sdecoded, cframe>>

\* The environment: devices come and go; an opened VideoCapture whose device
\* has gone stays in self.cap with isOpened() false.
DeviceChange ==
    /\ \E a \in SUBSET Devices :
          /\ a # avail
          /\ avail' = a
          /\ cap' = IF cap = "open" /\ camera_index \notin a THEN "stale" ELSE cap
    /\ UNCHANGED <<poolVars, repoVars, callVars, startResult, camera_index, is_running,
                   keep_alive_running, scan_in_progress, rlock, scan_callback,
                   last_barcode, sinceLast, kpc, cpcx, spc, scanTimedOut,
                   stopFlag, mpc, scanDisturbed, contStopAsked, closedSince,
                   sdecoded, sage, cframe, cage>>

(* ------------------ specifications of the camera service -------------- *)
CameraInit == PoolInit /\ CamInit /\ RepoInit

\* The single-shot scan.
ScanSteps ==
    \/ ScanCall
    \/ CancelScan
    \/ ScanStartCamera
    \/ ScanTop
    \/ ScanRead
    \/ ScanTest
    \/ ScanSetCode
    \/ ScanDetect
    \/ ScanTimeoutElapses

\* The continuous scan: its calls and its thread.
ContSteps ==
    \/ StartContinuousScan
    \/ StopContBegin
    \/ StopContFinish
    \/ StopCamFinish
    \/ ContBegin
    \/ ContStartCamera
    \/ ContTop
    \/ ContRead
    \/ ContTest
    \/ ContSetCode
    \/ ContDetect

\* Keep-alive: its calls and its threads.
KeepAliveSteps ==
    \/ StartKeepAlive
    \/ StopKeepAlive
    \/ \E k \in KeepAliveSlots : KaTop(k)
    \/ \E k \in KeepAliveSlots : KaBody(k)

\* The service with its decode loops: start_camera, stop_camera, the
\* single-shot scan and the continuous scan, and the clock.
ScanNext ==
    \/ StartCameraCall
    \/ StopCamBegin
    \/ StopCamLock
    \/ ScanSteps
    \/ ContSteps
    \/ Tick

SpecScan == CameraInit /\ [][ScanNext]_vars

\* The service with keep-alive: start_camera, stop_camera, keep-alive and
\* the single-shot scan that pauses it.
KeepAliveNext ==
    \/ StartCameraCall
    \/ StopCamBegin
    \/ StopCamLock
    \/ KeepAliveSteps
    \/ ScanSteps
    \/ Tick

SpecKeepAlive == CameraInit /\ [][KeepAliveNext]_vars

\* CameraService(camera_index) built on any set of devices.
StartStopInit ==
    /\ PoolInit
    /\ RepoInit
    /\ avail \in SUBSET Devices
    /\ camera_index \in Devices
    /\ CamFields

\* start_camera and stop_camera called one after the other while devices
\* come and go.
StartStopNext ==
    \/ StartCameraCall
    \/ StopCamBegin
    \/ StopCamLock
    \/ DeviceChange

SpecStartStop == StartStopInit /\ [][StartStopNext]_vars

(* --------------------- specification of the pool --------------------- *)
PoolNext ==
    \/ \E t \in Threads : GetCheck(t)
    \/ \E t \in Threads : GetTake(t)
    \/ \E t \in Threads : Corrupt(t)
    \/ \E t \in Threads : BodyReturn(t)
    \/ \E t \in Threads : BodySqliteError(t)
    \/ \E t \in Threads : BodyOtherError(t)
    \/ \E t \in Threads : FinCheck(t)
    \/ \E t \in Threads : FinPut(t)
    \/ \E t \in Threads : FinClose(t)
    \/ \E t \in Threads : FinReplace(t)
    \/ \E k \in Closers : CloseAllEnter(k)
    \/ \E k \in Closers : DrainCheck(k)
    \/ \E k \in Closers : DrainGet(k)
    \/ DbFlip

PoolOnlyInit == PoolInit /\ avail = {0} /\ CamConstructed /\ RepoInit

SpecPool == PoolOnlyInit /\ [][PoolNext]_vars

\* The pool with threads that go on: a caller in get_connection takes a
\* connection whenever one is queued again and again, a scope that holds a
\* connection is left, a finally clause and a close_all call run to their end.
PoolFairness ==
    /\ \A t \in Threads : SF_vars(GetTake(t))
    /\ \A t \in Threads : WF_vars(BodyReturn(t))
    /\ \A t \in Threads : WF_vars(FinCheck(t))
    /\ \A t \in Threads : WF_vars(FinPut(t))
    /\ \A t \in Threads : WF_vars(FinClose(t))
    /\ \A t \in Threads : WF_vars(FinReplace(t))
    /\ \A k \in Closers : WF_vars(DrainCheck(k))
    /\ \A k \in Closers : WF_vars(DrainGet(k))

SpecPoolLive == PoolOnlyInit /\ [][PoolNext]_vars /\ PoolFairness

(* ============ ItemRepository (repositories/item_repository.py) ========= *)
\* How a repository call's `with self.pool.get_connection()` and its
\* statements fail: get_connection raises RuntimeError on a closed pool
\* (database.py lines 78-79), and a statement raises sqlite3.Error while the
\* database file cannot be used.
StoreFault ==
    IF closed THEN "RuntimeError"
    ELSE IF ~dbUp THEN "sqlite3.Error"
    ELSE "none"

\* get_connection does not block: the pool is closed or has a connection.
CanGetConnection == closed \/ queue # <<>>

\* The columns of a stored row that an Item is written to.
Row(item) ==
    [name |-> item.name, expiry_date |-> item.expiry_date,
     is_opened |-> item.is_opened, opened_date |-> item.opened_date]

\* The stored rows that _row_to_item turns into an Item; the list queries
\* skip the others (lines 50-56).
Readable == {id \in DOMAIN items : RowToItem(id) # ValueError}

\* ORDER BY: the sequences that list every id of S once, in non-decreasing
\* order of key (rows with equal keys come in any order).
SortedBy(S, key(_)) ==
    {s \in [1..Cardinality(S) -> S] :
        /\ \A i, j \in 1..Cardinality(S) : i < j => s[i] # s[j]
        /\ \A i, j \in 1..Cardinality(S) : i < j => key(s[i]) <= key(s[j])}

\* ORDER_BY_COLUMNS (lines 15-21).
ORDER_BY_COLUMNS == {"expiry_date", "name", "quantity", "created_at", "updated_at"}

\* The values get_all is called with: allowed columns, a column of the table
\* that is not allowed, and text that is no column.
OrderByInputs == {"expiry_date", "name", "id", "'; DROP TABLE items; --"}

\* Line 45 with order_by itself taken as the column.
OrderColumnUnchecked(order_by) == order_by

\* Line 45: ORDER_BY_COLUMNS.get(order_by, 'expiry_date').
OrderColumn(order_by) ==
    IF order_by \in ORDER_BY_COLUMNS THEN order_by ELSE "expiry_date"

\* Line 47: SELECT * FROM items ORDER BY <column>: the rows in the order of
\* that column; text that is no column of the table is an sqlite3.Error.
SelectOrderedBy(column) ==
    IF column = "expiry_date"
      THEN [error |-> FALSE,
            rows |-> SortedBy(DOMAIN items, LAMBDA id : items[id].expiry_date)]
    ELSE IF column = "name"
      THEN [error |-> FALSE,
            rows |-> SortedBy(DOMAIN items,
                              LAMBDA id : IF items[id].name = "a" THEN 1 ELSE 2)]
    ELSE IF column = "id"
      THEN [error |-> FALSE, rows |-> SortedBy(DOMAIN items, LAMBDA id : id)]
    ELSE [error |-> TRUE, rows |-> {}]

\* A list of rows as the list queries return it: the rows that do not
\* convert to an Item are left out.
RECURSIVE SkipUnreadable(_)
SkipUnreadable(s) ==
    IF s = <<>> THEN <<>>
    ELSE IF Head(s) \in Readable THEN <<Head(s)>> \o SkipUnreadable(Tail(s))
    ELSE SkipUnreadable(Tail(s))

\* Whether a statement can be run with the parameters bound to it: sqlite3
\* raises ProgrammingError unless there is one parameter per placeholder.
BindingsMatch(placeholders, parameters) == placeholders = parameters

\* The handlers of a repository method: every method but get_statistics has
\* `except sqlite3.Error` and `except Exception`; get_statistics (lines
\* 410-419) has `except sqlite3.Error` alone.
AllHandlers == {"sqlite3.Error", "Exception"}
StatisticsHandlers == {"sqlite3.Error"}

\* Whether one of the handlers catches what was raised.
Caught(raised, handlers) ==
    \/ "Exception" \in handlers
    \/ raised = "sqlite3.Error" /\ "sqlite3.Error" \in handlers

\* What a call leaves for its caller.
Returned(op, arg, out) == [op |-> op, arg |-> arg, out |-> out, raised |-> "none"]
Raised(op, arg, exc) == [op |-> op, arg |-> arg, out |-> "none", raised |-> exc]

(* ---- the pooled connections and the write transaction of the database -- *)
\* The pool and the database as a `with self.pool.get_connection()` block
\* finds and leaves them: q is the queue of pooled connections, w the
\* connection whose write transaction is open (NoConn when there is none).
Db == [q |-> queue, w |-> writer]

\* get_connection hands out the connection at the head of the queue
\* (database.py line 81) and puts it back at the end (lines 108-109).
PutBack(db, w) == [q |-> Append(Tail(db.q), Head(db.q)), w |-> w]

\* A write statement runs on the connection handed out unless another
\* connection has a write transaction open: then it fails with
\* sqlite3.OperationalError (database is locked) when busy_timeout is over.
CanWrite(db) == db.w \in {NoConn, Head(db.q)}

\* A block that only ran SELECT statements: nothing begins or ends.
ReadDone(db) == PutBack(db, db.w)

\* A block whose statement raised sqlite3.Error: get_connection rolls the
\* connection back (database.py lines 85-90).
RolledBack(db) == PutBack(db, IF db.w = Head(db.q) THEN NoConn ELSE db.w)

\* A block that wrote and called conn.commit().
Committed(db) == PutBack(db, NoConn)

\* A block that wrote and returned without conn.commit(): sqlite3 began a
\* transaction before the write statement, and it stays open.
LeftOpen(db) == PutBack(db, Head(db.q))

\* The pool and the database after the call.
SetDb(db) ==
    /\ queue' = db.q
    /\ writer' = db.w
    /\ UNCHANGED <<closed, lock, connState, closeCalls, nextConn, tpc, conn, valid,
                   result, cpc, closeDone, dbUp, corrupted, probeFailed>>

\* A block that reads: what it does to the pool and the database when the
\* pool is closed, when its statement fails, and when it succeeds.
AfterRead(db, failed) ==
    IF closed THEN db
    ELSE IF ~dbUp \/ failed THEN RolledBack(db)
    ELSE ReadDone(db)

\* A block that writes and commits: whether its write statement runs.
WriteFails(db) == closed \/ ~dbUp \/ ~CanWrite(db)

AfterWrite(db) ==
    IF closed THEN db
    ELSE IF ~dbUp \/ ~CanWrite(db) THEN RolledBack(db)
    ELSE Committed(db)

(* ----------------------- the ItemRepository methods -------------------- *)
\* A read query that returns a list: [] when the statement or the pool
\* failed (the handlers that close each list method), else the rows
\* converted to Items, in one of the orders the statement allows.
ListQuery(op, arg, failed, orders) ==
    /\ IF StoreFault # "none" \/ failed
         THEN reply' = Returned(op, arg, <<>>)
         ELSE \E s \in orders : reply' = Returned(op, arg, SkipUnreadable(s))
    /\ SetDb(AfterRead(Db, failed))
    /\ UNCHANGED <<today, items, nextItemId, camVars, callVars, barcodeVars>>

\* get_all(order_by) (lines 31-65).
GetAll ==
    \E order_by \in OrderByInputs :
        LET q == SelectOrderedBy(OrderColumn(order_by))
        IN /\ CanGetConnection
           /\ ListQuery("get_all", order_by, q.error, q.rows)

\* get_expiring_soon(days) (lines 93-127). The statement has no placeholder,
\* its `?` being inside the string literal '+? days', and one parameter is
\* bound to it.
GetExpiringSoon ==
    \E days \in 0..3 :
        /\ CanGetConnection
        /\ ListQuery("get_expiring_soon", days, ~BindingsMatch(0, 1),
                     SortedBy({id \in DOMAIN items :
                                  /\ items[id].expiry_date <= today + days
                                  /\ items[id].expiry_date >= today},
                              LAMBDA id : items[id].expiry_date))

\* get_expired() (lines 129-159): ORDER BY expiry_date DESC.
GetExpired ==
    /\ CanGetConnection
    /\ ListQuery("get_expired", "none", ~BindingsMatch(0, 0),
                 SortedBy({id \in DOMAIN items : items[id].expiry_date < today},
                          LAMBDA id : 0 - items[id].expiry_date))

\* get_opened() (lines 161-191): ORDER BY opened_date DESC.
GetOpened ==
    /\ CanGetConnection
    /\ ListQuery("get_opened", "none", ~BindingsMatch(0, 0),
                 SortedBy({id \in DOMAIN items : items[id].is_opened},
                          LAMBDA id : 0 - items[id].opened_date))

\* search(query) (lines 193-226): name LIKE %query%, ORDER BY name.
Search ==
    \E query \in NameInputs :
        /\ CanGetConnection
        /\ ListQuery("search", query, ~BindingsMatch(1, 1),
                     SortedBy({id \in DOMAIN items :
                                  query = "" \/ items[id].name = query},
                              LAMBDA id : IF items[id].name = "a" THEN 1 ELSE 2))

\* What get_by_id(item_id) returns (lines 67-91): the Item, or None (here
\* ValueError, the reason of one of the cases) when there is no such row,
\* the row does not convert, or the call failed.
ItemById(id) ==
    IF StoreFault # "none" \/ id \notin Readable THEN ValueError
    ELSE RowToItem(id)

\* get_by_id(item_id) (lines 67-91).
GetById ==
    \E id \in ItemIds :
        /\ CanGetConnection
        /\ reply' = Returned("get_by_id", id,
                             IF ItemById(id) = ValueError THEN 0 ELSE id)
        /\ SetDb(AfterRead(Db, FALSE))
        /\ UNCHANGED <<today, items, nextItemId, camVars, callVars, barcodeVars>>

\* The opened dates the caller of create and update passes: none, the first
\* day, today.
NewOpenedDates == {NoDate, 0, today}

\* create(item) (lines 228-265), item built by Item(...): the row is
\* inserted under the next id, which is returned in the item; None on failure.
Create ==
    \E name \in NewNames, expiry \in NewExpiries, opened \in BOOLEAN,
       odate \in NewOpenedDates :
        LET item == ItemNew(0, name, expiry, opened, odate)
        IN /\ item # ValueError
           /\ nextItemId <= MaxItems
           /\ CanGetConnection
           /\ IF WriteFails(Db)
                THEN /\ reply' = Returned("create", "item", 0)
                     /\ UNCHANGED <<items, nextItemId>>
                ELSE /\ items' = [i \in DOMAIN items \cup {nextItemId} |->
                                    IF i = nextItemId THEN Row(item) ELSE items[i]]
                     /\ nextItemId' = nextItemId + 1
                     /\ reply' = Returned("create", "item", nextItemId)
           /\ SetDb(AfterWrite(Db))
           /\ UNCHANGED <<today, camVars, callVars, barcodeVars>>

\* What update(item) does to the table and returns (lines 267-314), on the
\* pool and database db: the row with item.id is overwritten; False when
\* there is none or the call failed.
UpdateRow(item, db) ==
    IF WriteFails(db) \/ item.id \notin DOMAIN items
      THEN [ok |-> FALSE, items |-> items, db |-> AfterWrite(db)]
      ELSE [ok |-> TRUE, items |-> [items EXCEPT ![item.id] = Row(item)],
            db |-> AfterWrite(db)]

\* update(item) (lines 267-314), item built by Item(...).
Update ==
    \E id \in ItemIds, name \in NewNames, expiry \in NewExpiries,
       opened \in BOOLEAN, odate \in NewOpenedDates :
        LET item == ItemNew(id, name, expiry, opened, odate)
        IN /\ item # ValueError
           /\ CanGetConnection
           /\ items' = UpdateRow(item, Db).items
           /\ reply' = Returned("update", id, UpdateRow(item, Db).ok)
           /\ SetDb(UpdateRow(item, Db).db)
           /\ UNCHANGED <<today, nextItemId, camVars, callVars, barcodeVars>>

\* delete(item_id) (lines 316-346).
Delete ==
    \E id \in ItemIds :
        /\ CanGetConnection
        /\ IF WriteFails(Db) \/ id \notin DOMAIN items
             THEN /\ reply' = Returned("delete", id, FALSE)
                  /\ UNCHANGED items
             ELSE /\ items' = [i \in DOMAIN items \ {id} |-> items[i]]
                  /\ reply' = Returned("delete", id, TRUE)
        /\ SetDb(AfterWrite(Db))
        /\ UNCHANGED <<today, nextItemId, camVars, callVars, barcodeVars>>

\* Lines 362-367 with opened_date left as it was read.
ToggledKeepingDate(item) ==
    [item EXCEPT !.is_opened = ~item.is_opened]

\* Lines 362-367: the item read by get_by_id with is_opened flipped, and
\* opened_date set to today (when newly opened and without a date) or cleared.
Toggled(item) ==
    [item EXCEPT !.is_opened = ~item.is_opened,
                 !.opened_date = IF ~item.is_opened /\ item.opened_date = NoDate
                                   THEN today
                                 ELSE IF item.is_opened THEN NoDate
                                 ELSE item.opened_date]

\* toggle_opened_status(item_id) (lines 348-369): get_by_id, then update on
\* the connection the pool hands out next.
ToggleOpenedStatus ==
    \E id \in ItemIds :
        /\ CanGetConnection
        /\ IF ItemById(id) = ValueError
             THEN /\ reply' = Returned("toggle_opened_status", id, FALSE)
                  /\ SetDb(AfterRead(Db, FALSE))
                  /\ UNCHANGED items
             ELSE LET u == UpdateRow(Toggled(ItemById(id)), AfterRead(Db, FALSE))
                  IN /\ items' = u.items
                     /\ reply' = Returned("toggle_opened_status", id, u.ok)
                     /\ SetDb(u.db)
        /\ UNCHANGED <<today, nextItemId, camVars, callVars, barcodeVars>>

\* The counts get_statistics reads (lines 382-408; quantities are not kept).
Statistics ==
    LET expired == Cardinality({id \in DOMAIN items : items[id].expiry_date < today})
        soon == Cardinality({id \in DOMAIN items :
                                /\ items[id].expiry_date <= today + 3
                                /\ items[id].expiry_date >= today})
    IN [total_items |-> Cardinality(DOMAIN items),
        expired_count |-> expired,
        expiring_soon_count |-> soon,
        opened_count |-> Cardinality({id \in DOMAIN items : items[id].is_opened}),
        fresh_count |-> Cardinality(DOMAIN items) - expired - soon]

ZeroStatistics ==
    [total_items |-> 0, expired_count |-> 0, expiring_soon_count |-> 0,
     opened_count |-> 0, fresh_count |-> 0]

\* get_statistics() (lines 371-419).
GetStatistics ==
    /\ CanGetConnection
    /\ reply' = IF StoreFault = "none"
                  THEN Returned("get_statistics", "none", Statistics)
                ELSE IF Caught(StoreFault, StatisticsHandlers)
                  THEN Returned("get_statistics", "none", ZeroStatistics)
                ELSE Raised("get_statistics", "none", StoreFault)
    /\ SetDb(AfterRead(Db, FALSE))
    /\ UNCHANGED <<today, items, nextItemId, camVars, callVars, barcodeVars>>

\* The environment: the date changes.
NextDay ==
    /\ today < MaxDay
    /\ today' = today + 1
    /\ UNCHANGED <<items, nextItemId, reply, writer, poolVars, camVars, callVars, barcodeVars>>

\* item.status of the item get_by_id(item_id) returns (item.py lines
\* 104-114), as the item cards read it.
ItemStatus ==
    \E id \in ItemIds :
        /\ CanGetConnection
        /\ ItemById(id) # ValueError
        /\ reply' = Returned("status", id, Status(ItemById(id)))
        /\ SetDb(AfterRead(Db, FALSE))
        /\ UNCHANGED <<today, items, nextItemId, camVars, callVars, barcodeVars>>

(* ------------------ specifications of the item repository -------------- *)
ItemsInit == PoolInit /\ avail = {0} /\ CamConstructed /\ RepoInit

\* The repository called by one caller, one call after the other, on a
\* pool and a database file that work, while the days pass.
ItemsNext ==
    \/ GetById
    \/ GetOpened
    \/ Create
    \/ Update
    \/ Delete
    \/ ToggleOpenedStatus
    \/ ItemStatus
    \/ NextDay

SpecItems == ItemsInit /\ [][ItemsNext]_vars

\* The tables the list queries are asked about: up to MaxRows rows that
\* create(Item(...)) stored, none of them opened.
Stores ==
    UNION {[1..n -> {Row(ItemNew(0, name, expiry, FALSE, NoDate)) :
                        name \in Names, expiry \in Days}] : n \in 0..MaxRows}

QueryInit ==
    /\ PoolInit /\ avail = {0} /\ CamConstructed
    /\ today \in Days
    /\ items \in Stores
    /\ nextItemId = Len(items) + 1
    /\ reply = NoReply
    /\ writer = NoConn
    /\ BarcodeInit
    /\ TogglesIdle

QueryNext ==
    \/ GetAll
    \/ GetExpiringSoon
    \/ GetExpired
    \/ Search
    \/ GetStatistics

SpecQuery == QueryInit /\ [][QueryNext]_vars

\* Tables with rows that were not written through Item(...): an empty name,
\* an expiry_date that is no date.
DamagedStores ==
    UNION {[1..n -> [name : NameInputs, expiry_date : {0, MaxDay, CorruptDate},
                     is_opened : BOOLEAN, opened_date : {NoDate}]] :
              n \in 1..MaxRows}

DamagedInit ==
    /\ PoolInit /\ avail = {0} /\ CamConstructed
    /\ today \in Days
    /\ items \in DamagedStores
    /\ nextItemId = Len(items) + 1
    /\ reply = NoReply
    /\ writer = NoConn
    /\ BarcodeInit
    /\ TogglesIdle

\* The list queries on such a table.
DamagedNext ==
    \/ GetAll
    \/ GetExpiringSoon
    \/ GetExpired
    \/ GetOpened
    \/ Search

SpecDamaged == DamagedInit /\ [][DamagedNext]_vars

\* The repository on a pool that the shutdown path closes and a database
\* file that comes and goes.
StoreNext ==
    \/ GetAll
    \/ GetById
    \/ GetExpiringSoon
    \/ GetExpired
    \/ GetOpened
    \/ Search
    \/ Create
    \/ Update
    \/ Delete
    \/ ToggleOpenedStatus
    \/ GetStatistics
    \/ DbFlip
    \/ \E k \in Closers : CloseAllEnter(k)
    \/ \E k \in Closers : DrainCheck(k)
    \/ \E k \in Closers : DrainGet(k)

SpecStore == ItemsInit /\ [][StoreNext]_vars

(* ===== BarcodeService (services/barcode_service.py) and its cache ====== *)
(* ============ (repositories/barcode_repository.py) ===================== *)
\* The outcomes of the request to the OpenFoodFacts API: a product with a
\* name; no such product; a transport or parse failure.
ApiOutcomes == {"hit", "miss", "failure"}

\* barcode LIKE 'PRODUCE_%'.
IsProduce(barcode) == barcode \in ProduceCodes

\* What a lookup leaves for its caller: a product and its source, None
\* (source "none"), or an exception.
Product(op, barcode, source) ==
    [op |-> op, barcode |-> barcode, source |-> source, raised |-> "none"]
Failed(op, barcode, exc) ==
    [op |-> op, barcode |-> barcode, source |-> "none", raised |-> exc]

\* BarcodeRepository.lookup(barcode) (lines 21-68) on the table c and the
\* pool and database db: None for the empty barcode; else the UPDATE of
\* last_used, then the SELECT; a row found is committed and returned; when
\* there is none the method returns without commit or rollback.
LookupRow(barcode, c, db) ==
    IF barcode = "" \/ closed
      THEN [hit |-> FALSE, cache |-> c, db |-> db]
    ELSE IF ~dbUp \/ ~CanWrite(db)
      THEN [hit |-> FALSE, cache |-> c, db |-> RolledBack(db)]
    ELSE IF barcode \in DOMAIN c
      THEN [hit |-> TRUE,
            cache |-> [c EXCEPT ![barcode] = [last_used |-> today]],
            db |-> Committed(db)]
    ELSE [hit |-> FALSE, cache |-> c, db |-> LeftOpen(db)]

\* BarcodeRepository.save(barcode, name, ...) (lines 70-107) on the table c
\* and the pool and database db: INSERT OR REPLACE and commit; False for
\* the empty barcode and when the store fails.
SaveRow(barcode, c, db) ==
    IF barcode = "" \/ closed
      THEN [ok |-> FALSE, cache |-> c, db |-> db]
    ELSE IF ~dbUp \/ ~CanWrite(db)
      THEN [ok |-> FALSE, cache |-> c, db |-> RolledBack(db)]
    ELSE [ok |-> TRUE,
          cache |-> [b \in DOMAIN c \cup {barcode} |->
                       IF b = barcode THEN [last_used |-> today] ELSE c[b]],
          db |-> Committed(db)]

\* BarcodeRepository.lookup(barcode) (lines 21-68), called on its own.
RepoLookup ==
    \E barcode \in BarcodeInputs :
        LET l == LookupRow(barcode, cache, Db)
        IN /\ bpc = "idle"
           /\ CanGetConnection
           /\ cache' = l.cache
           /\ breply' = Product("lookup", barcode,
                                IF l.hit THEN "local" ELSE "none")
           /\ SetDb(l.db)
           /\ UNCHANGED <<awaited, bpc, bcode, itemVars, camVars, callVars>>

\* lookup_product(barcode) (lines 115-144) up to the request to the API:
\* the empty barcode is refused; the local strategy answers; or the
\* OpenFoodFacts strategy is called, lru_cache (line 57) handing out the
\* coroutine it made at the first call for this barcode, which cannot be
\* awaited twice.
LookupBegin ==
    \E barcode \in BarcodeInputs :
        LET l == LookupRow(barcode, cache, Db)
        IN /\ bpc = "idle"
           /\ CanGetConnection
           /\ cache' = l.cache
           /\ SetDb(l.db)
           /\ IF barcode = ""
                THEN /\ breply' = Failed("lookup_product", barcode, "ValueError")
                     /\ UNCHANGED <<awaited, bpc, bcode>>
              ELSE IF l.hit
                THEN /\ breply' = Product("lookup_product", barcode, "local")
                     /\ UNCHANGED <<awaited, bpc, bcode>>
              ELSE IF barcode \in awaited
                THEN /\ breply' = Failed("lookup_product", barcode, "RuntimeError")
                     /\ UNCHANGED <<awaited, bpc, bcode>>
              ELSE /\ awaited' = awaited \cup {barcode}
                   /\ bpc' = "external"
                   /\ bcode' = barcode
                   /\ UNCHANGED breply
           /\ UNCHANGED <<itemVars, camVars, callVars>>

\* lookup_product (lines 129-144) from the answer of the API: a hit is
\* saved to the local cache and returned, anything else is not found.
LookupExternal ==
    \E outcome \in ApiOutcomes :
        LET s == SaveRow(bcode, cache, Db)
        IN /\ bpc = "external"
           /\ CanGetConnection
           /\ IF outcome = "hit"
                THEN /\ cache' = s.cache
                     /\ SetDb(s.db)
                     /\ breply' = Product("lookup_product", bcode, "openfoodfacts")
                ELSE /\ breply' = Failed("lookup_product", bcode, "BarcodeNotFoundError")
                     /\ UNCHANGED <<cache, writer, poolVars>>
           /\ bpc' = "idle"
           /\ bcode' = ""
           /\ UNCHANGED <<awaited, itemVars, camVars, callVars>>

\* lookup_product_sync(barcode) (lines 146-183).
LookupProductSync ==
    \E barcode \in Barcodes, outcome \in ApiOutcomes :
        LET l == LookupRow(barcode, cache, Db)
            s == SaveRow(barcode, l.cache, l.db)
        IN /\ bpc = "idle"
           /\ CanGetConnection
           /\ IF l.hit
                THEN /\ cache' = l.cache
                     /\ SetDb(l.db)
                     /\ breply' = Product("lookup_product_sync", barcode, "local")
              ELSE IF outcome = "hit"
                THEN /\ cache' = s.cache
                     /\ SetDb(s.db)
                     /\ breply' = Product("lookup_product_sync", barcode, "openfoodfacts")
              ELSE /\ cache' = l.cache
                   /\ SetDb(l.db)
                   /\ breply' = Product("lookup_product_sync", barcode, "none")
           /\ UNCHANGED <<awaited, bpc, bcode, itemVars, camVars, callVars>>

\* The rows the DELETE of cleanup_old_entries (lines 286-290) is written to
\* remove: last used more than `days` days ago, and not produce.
OldEntries(days) ==
    {b \in DOMAIN cache : cache[b].last_used < today - days /\ ~IsProduce(b)}

\* What cleanup_old_entries leaves for its caller.
Removed(days, n) ==
    [op |-> "cleanup_old_entries", barcode |-> "", source |-> "none",
     raised |-> "none", days |-> days, removed |-> n]

\* cleanup_old_entries(days) (lines 274-303). The statement has no
\* placeholder, its `?` being inside the string literal '-? days', and one
\* parameter is bound to it.
CleanupOldEntries ==
    \E days \in CleanupDays :
        /\ bpc = "idle"
        /\ CanGetConnection
        /\ IF closed
             THEN /\ breply' = Removed(days, 0)
                  /\ SetDb(Db)
                  /\ UNCHANGED cache
           ELSE IF ~dbUp \/ ~BindingsMatch(0, 1) \/ ~CanWrite(Db)
             THEN /\ breply' = Removed(days, 0)
                  /\ SetDb(RolledBack(Db))
                  /\ UNCHANGED cache
           ELSE /\ cache' = [b \in DOMAIN cache \ OldEntries(days) |-> cache[b]]
                /\ breply' = Removed(days, Cardinality(OldEntries(days)))
                /\ SetDb(Committed(Db))
        /\ UNCHANGED <<awaited, bpc, bcode, itemVars, camVars, callVars>>

\* The global pool the repositories share (database.py line 158), with
\* RepoPoolSize connections.
BarcodeSpecInit ==
    /\ PoolWith(RepoPoolSize)
    /\ avail = {0}
    /\ CamConstructed
    /\ RepoInit

\* The barcode service and its repository called by one caller, on a pool
\* and a database file that work, while the days pass.
BarcodeNext ==
    \/ RepoLookup
    \/ LookupBegin
    \/ LookupExternal
    \/ LookupProductSync
    \/ CleanupOldEntries
    \/ NextDay

SpecBarcode == BarcodeSpecInit /\ [][BarcodeNext]_vars

(* ------------------- claims on the connection pool --------------------- *)
\* C1: get_connection never hands the same connection to two callers at
\* once: in every reachable state each connection is held by at most one
\* scope.
C1_AtMostOneHolder ==
    \A c \in ConnIds : Cardinality(HoldersOf(c)) <= 1

\* A scope holds a connection while another caller is inside get_connection
\* waiting for one.
C1_Witness ==
    \E t, u \in Threads : t # u /\ conn[t] # NoConn /\ tpc[u] = "get"

\* C2: the number of connections checked out never exceeds pool_size, and
\* when pool_size connections are checked out no further caller can take
\* one: Queue.get blocks.
C2_CheckedOutBounded ==
    /\ Cardinality(CheckedOut) <= PoolSize
    /\ Cardinality(CheckedOut) = PoolSize => \A t \in Threads : ~ENABLED GetTake(t)

\* All pool_size connections are checked out and a further caller is blocked
\* in Queue.get.
C2_Witness ==
    /\ Cardinality(CheckedOut) = PoolSize
    /\ \E t \in Threads : tpc[t] = "get" /\ conn[t] = NoConn

\* A connection whose probe failed is out of the pool for good: it is never
\* queued, and held only by the scope that is still leaving with it; once
\* that scope has released it, it is closed.
CorruptedNeverReappears ==
    \A c \in probeFailed :
        /\ c \notin SeqSet(queue)
        /\ \A t \in HoldersOf(c) : tpc[t] \in {"fin", "close"} /\ ~valid[t]
        /\ HoldersOf(c) = {} => connState[c] = "closed"

\* The step in which thread t finishes the finally clause of a scope whose
\* connection failed the probe.
CorruptedScopeEnds(t) ==
    /\ \/ tpc[t] = "close" /\ ~valid[t]
       \/ tpc[t] = "replace"
    /\ tpc'[t] = "idle"

\* That step queues a connection opened just now.
ReplacedByFresh ==
    /\ nextConn' = nextConn + 1
    /\ connState[nextConn'] = "unopened"
    /\ connState'[nextConn'] = "open"
    /\ queue' = Append(queue, nextConn')

C5_FailsFastWhenClosed ==
    [][\A t \in Threads :
         (closed /\ tpc[t] = "idle")
            => /\ tpc'[t] = "idle"
               /\ conn'[t] = NoConn
               /\ result'[t] \in {result[t], "pool_closed"}]_vars

\* close_all has returned and a later get_connection call was refused.
C5_Witness ==
    /\ closed
    /\ closeDone >= 1
    /\ \E t \in Threads : tpc[t] = "idle" /\ result[t] = "pool_closed"

\* C6: close_all is idempotent: no connection is closed twice, and a call
\* made when the pool is already closed and no other call is draining
\* returns at once and leaves the pool as it was.
C6_CloseAllIdempotent ==
    /\ [](\A c \in ConnIds : closeCalls[c] <= 1)
    /\ [][(closed /\ (\A k \in Closers : cpc[k] = "idle")
              /\ (cpc' # cpc \/ closeDone' # closeDone))
            => /\ cpc' = cpc
               /\ closeDone' = closeDone + 1
               /\ UNCHANGED <<queue, closed, lock, connState, closeCalls>>]_vars

\* Two close_all calls have returned, the first having closed a connection.
C6_Witness ==
    /\ closeDone >= 2
    /\ closed
    /\ \E c \in ConnIds : closeCalls[c] = 1

(* -------------------- claims on the camera service --------------------- *)
\* scan_barcode_sync returns None: the while loop is left at its test (line
\* 312), at stop_flag (line 314) or at the handle check (line 319).
ScanReturnsNone == spc \in {"top", "read"} /\ spc' = "idle"

\* C7: a scan_barcode_sync call on a camera that is open, with no stop call
\* made while it runs, returns None only when its timeout has elapsed or
\* stop_flag has become true, whatever calls were made before it.
C7_NoResultOnlyOnTimeoutOrStop ==
    [][(ScanReturnsNone /\ cap = "open" /\ ~scanDisturbed)
          => (scanTimedOut \/ stopFlag)]_vars

\* The thread of a continuous scan ends.
ContThreadEnds == cpcx # "dead" /\ cpcx' = "dead"

\* The continuous loop reports a barcode (lines 446-456).
ContReports == cpcx = "settime" /\ cpcx' # "settime"

\* C8: the thread of a continuous scan started on an available camera ends
\* only after stop_continuous_scan or stop_camera was called, for every
\* start; and until such a call each barcode it reports goes to the callback.
C8_RunsUntilStopped ==
    [][/\ (ContThreadEnds /\ avail # {}) => contStopAsked
       /\ (ContReports /\ ~contStopAsked) => scan_callback]_vars

\* C9: once stop_camera has returned, and until the next start_camera,
\* start_keep_alive or scan call, no device handle is held and keep-alive
\* is not running, whatever the keep-alive and scan threads do.
C9_StaysClosed ==
    closedSince => (cap = "none" /\ ~keep_alive_running)

\* A decode loop records the barcode it is about to report as the last
\* detected one (line 365, line 446).
ScanRecords == spc = "setcode" /\ spc' = "settime"
ContRecords == cpcx = "setcode" /\ cpcx' = "settime"

\* C10: a decode loop reports a barcode equal to the last detected one only
\* when more than the debounce window has passed since that detection, and
\* passes over a barcode only when it equals the last detected one within
\* the window.
C10_Debounce ==
    [][/\ ScanRecords
            => (sdecoded # last_barcode \/ sinceLast > DebounceTime)
       /\ ContRecords
            => (Head(cframe) # last_barcode \/ sinceLast > DebounceTime)
       /\ (spc = "test" /\ spc' = "top")
            => (sdecoded = last_barcode /\ sinceLast <= DebounceTime)
       /\ (cpcx = "test" /\ cframe' = Tail(cframe))
            => (Head(cframe) = last_barcode /\ sinceLast <= DebounceTime)]_vars

\* C11: a start_camera call raises CameraError when neither camera_index nor
\* any of the indices 0, 1, 2 can be opened, and then no handle is held;
\* otherwise it returns True with a handle held and camera_index the index
\* of a device that is there.
C11_StartCamera ==
    [][(mpc = "idle" /\ mpc' = "idle" /\ avail' = avail)
          => IF ({camera_index} \cup {0, 1, 2}) \cap avail = {}
               THEN startResult' = "CameraError" /\ cap' = "none"
               ELSE /\ startResult' = "True"
                    /\ cap' = "open"
                    /\ camera_index' \in avail]_vars

\* start_camera has raised CameraError although some device is there (none
\* at camera_index or at 0, 1, 2), and no handle is held.
C11_Witness ==
    /\ startResult = "CameraError"
    /\ cap = "none"
    /\ avail # {}
    /\ ({camera_index} \cup {0, 1, 2}) \cap avail = {}

\* The service is Closed: no handle, is_running false, keep-alive stopped.
Closed == cap = "none" /\ ~is_running /\ ~keep_alive_running

\* A step of a stop_camera call: stop_keep_alive (line 262), the locked
\* block (lines 264-279), the return from the join inside it.
StopCameraStep ==
    \/ mpc = "idle" /\ mpc' = "sc_lock"
    \/ mpc = "sc_lock" /\ mpc' # "sc_lock"
    \/ mpc = "sc_join" /\ mpc' = "idle"

\* C12: a stop_camera call on a Closed service changes none of cap,
\* is_running and the keep-alive flag at any of its steps, and its locked
\* block, which has no raising exit, can always be run to the call's return.
C12_StopCameraRepeatable ==
    /\ [][(StopCameraStep /\ Closed)
             => UNCHANGED <<cap, is_running, keep_alive_running>>]_vars
    /\ []((mpc = "sc_lock" /\ rlock = "free") => ENABLED StopCamLock)

\* A stop_camera call made after an earlier one had returned, with nothing
\* started in between, has run stop_keep_alive and finds the service Closed.
C12_Witness ==
    /\ closedSince
    /\ mpc = "sc_lock"
    /\ Closed

(* -------------------- claims on items and their store ------------------ *)
\* An item.status read: ItemStatus has just answered for a stored item.
StatusRead == reply'.op = "status" /\ today' = today /\ items' = items

\* C13: the status of every item is exactly one of expired, expiring_soon,
\* opened and fresh, chosen in that order: expired when the expiry date is
\* before today; else expiring_soon when it is 0 to 3 days away; else opened
\* when the item is opened; else fresh. An item that expired yesterday is
\* expired and one that expires in two days is expiring_soon, opened or not.
C13_StatusPrecedence ==
    [][StatusRead =>
         LET item == items[reply'.arg]
             days == item.expiry_date - today
             status == reply'.out
         IN /\ status \in {"expired", "expiring_soon", "opened", "fresh"}
            /\ status = "expired" <=> item.expiry_date < today
            /\ status = "expiring_soon" <=> (0 <= days /\ days <= 3)
            /\ status = "opened" <=> (days > 3 /\ item.is_opened)
            /\ status = "fresh" <=> (days > 3 /\ ~item.is_opened)
            /\ item.expiry_date = today - 1 => status = "expired"
            /\ item.expiry_date = today + 2 => status = "expiring_soon"]_vars

\* An opened item that expires in two days was read as expiring_soon.
C13_Witness ==
    /\ reply.op = "status"
    /\ reply.out = "expiring_soon"
    /\ reply.arg \in DOMAIN items
    /\ items[reply.arg].is_opened
    /\ items[reply.arg].expiry_date = today + 2

\* A toggle_opened_status call has just returned.
ToggleStep == reply'.op = "toggle_opened_status" /\ today' = today

\* What is stored of an item and what reading it back gives agree on the
\* opened flag and date: the date is set exactly when the item is opened,
\* and is not after today.
OpenedDateConsistent(id) ==
    /\ id \in Readable
    /\ items[id].is_opened <=> items[id].opened_date # NoDate
    /\ items[id].opened_date <= today
    /\ RowToItem(id).is_opened = items[id].is_opened
    /\ RowToItem(id).opened_date = items[id].opened_date

\* C14: toggle_opened_status(id) on an existing item flips the stored opened
\* flag, a false-to-true toggle storing opened_date = today and a
\* true-to-false toggle clearing it; after any sequence of creates, updates
\* and toggles every stored item read back has opened_date set if and only
\* if it is opened, and never a future opened_date.
C14_ToggleOpened ==
    /\ [][(ToggleStep /\ reply'.arg \in DOMAIN items) =>
             LET id == reply'.arg
             IN /\ reply'.out = TRUE
                /\ items'[id].is_opened = ~items[id].is_opened
                /\ ~items[id].is_opened => items'[id].opened_date = today
                /\ items[id].is_opened => items'[id].opened_date = NoDate
                /\ \A other \in DOMAIN items \ {id} : items'[other] = items[other]]_vars
    /\ [](\A id \in DOMAIN items : OpenedDateConsistent(id))

\* An item opened on an earlier day was closed and opened again by toggles,
\* and carries the day of the last toggle.
C14_Witness ==
    /\ reply.op = "toggle_opened_status"
    /\ reply.out = TRUE
    /\ today > 1
    /\ items[reply.arg].is_opened
    /\ items[reply.arg].opened_date = today

\* C15: no ItemRepository operation ever propagates an exception to its
\* caller: every store-level failure, a failure to obtain a connection from
\* the pool included, becomes an empty list, None, False or zeroed statistics.
C15_NoExceptionPropagates == reply.raised = "none"

(* ------------------- claims on the barcode service --------------------- *)
\* A step at which lookup_product or lookup_product_sync returns, the day
\* unchanged.
LookupReturn ==
    /\ breply'.op \in {"lookup_product", "lookup_product_sync"}
    /\ bpc' = "idle"
    /\ today' = today

\* C16: whenever lookup_product or lookup_product_sync returns a hit that
\* came from the external API, the barcode is in the local cache when the
\* call returns, so that a following local lookup of it is a hit.
C16_CachePopulated ==
    [][(LookupReturn /\ breply'.source = "openfoodfacts") =>
          breply'.barcode \in DOMAIN cache']_vars

\* C17: every lookup_product of a non-empty barcode that gets a product from
\* neither the local cache nor the external API raises BarcodeNotFoundError
\* and nothing else, at the first call and at every repeated call.
C17_NotFoundOnly ==
    (/\ breply.op = "lookup_product"
     /\ breply.barcode # ""
     /\ breply.source = "none")
        => breply.raised = "BarcodeNotFoundError"

\* A step at which cleanup_old_entries returns.
CleanupReturn ==
    /\ breply'.op = "cleanup_old_entries"
    /\ bpc = "idle"
    /\ bpc' = "idle"
    /\ today' = today

\* C18: cleanup_old_entries(days) removes exactly the entries last used more
\* than `days` days ago that are not produce, returns their number, and
\* leaves every other entry as it was.
C18_CleanupRemovesOld ==
    [][CleanupReturn =>
          LET old == OldEntries(breply'.days)
          IN /\ DOMAIN cache' = DOMAIN cache \ old
             /\ \A b \in DOMAIN cache' : cache'[b] = cache[b]
             /\ breply'.removed = Cardinality(old)]_vars

(* ------------------- claims on the list queries ------------------------ *)
\* C19: get_expiring_soon(days) returns exactly the stored items whose expiry
\* date d satisfies today <= d <= today + days, ordered by expiry date.
C19_ExpiringSoonWindow ==
    [][reply'.op = "get_expiring_soon" =>
          LET days == reply'.arg
              due == {id \in DOMAIN items :
                         /\ today <= items[id].expiry_date
                         /\ items[id].expiry_date <= today + days}
          IN reply'.out \in SortedBy(due, LAMBDA id : items[id].expiry_date)]_vars

\* C20: get_all(order_by) puts into the query only a column of the allow-list
\* ORDER_BY_COLUMNS; for every other order_by, the text
\* "'; DROP TABLE items; --" included, it returns the items sorted by
\* expiry_date; and it leaves the stored items as they were.
C20_OrderByAllowList ==
    /\ [](\A order_by \in OrderByInputs : OrderColumn(order_by) \in ORDER_BY_COLUMNS)
    /\ [][reply'.op = "get_all" =>
             /\ items' = items
             /\ reply'.arg \notin ORDER_BY_COLUMNS =>
                    reply'.out \in SortedBy(DOMAIN items,
                                            LAMBDA id : items[id].expiry_date)
             /\ reply'.arg = "name" =>
                    reply'.out \in SortedBy(DOMAIN items,
                                            LAMBDA id : IF items[id].name = "a"
                                                          THEN 1 ELSE 2)]_vars

\* get_all was called with the injected text on two items stored in the
\* reverse order of their expiry dates, and listed them by expiry date.
C20_Witness ==
    /\ reply.op = "get_all"
    /\ reply.arg = "'; DROP TABLE items; --"
    /\ DOMAIN items = {1, 2}
    /\ items[1].expiry_date > items[2].expiry_date
    /\ reply.out = <<2, 1>>

(* ------------- claims on the pause flag and the keep-alive loop -------- *)
\* scan_barcode_sync returns or raises.
ScanExits == spc # "idle" /\ spc' = "idle"

\* C23: when scan_barcode_sync exits, by a returned barcode, the timeout, a
\* cancellation, an unavailable camera or CameraError, the pause flag
\* _scan_in_progress is false at the exit.
C23_FlagClearedOnExit ==
    [][ScanExits => ~scan_in_progress']_vars

\* A scan has returned a barcode and the pause flag is clear.
C23_Witness ==
    /\ spc = "idle"
    /\ last_barcode # "None"
    /\ ~scan_in_progress

\* The keep-alive threads that have not ended.
KeepAliveThreads == {k \in KeepAliveSlots : kpc[k] # "dead"}

\* C28: at most one keep-alive loop thread is running at any time, for every
\* sequence of start_keep_alive, stop_keep_alive and stop_camera calls, a
\* start_keep_alive after a stop whose join timed out included.
C28_OneKeepAliveThread == Cardinality(KeepAliveThreads) <= 1

\* The decode loops that are active: a single-shot scan or a continuous scan
\* from its first loop test to its exit.
LoopStates == {"top", "read", "test", "setcode", "settime"}
ScanLoopActive == spc \in LoopStates
ContLoopActive == cpcx \in LoopStates

\* C29: the pause flag _scan_in_progress is true in every state in which a
\* decode loop, single-shot or continuous, is active.
C29_FlagWhileLoopActive ==
    (ScanLoopActive \/ ContLoopActive) => scan_in_progress

\* The keep-alive loop reads a frame from the device (line 229).
KeepAliveReads ==
    \E k \in KeepAliveSlots : kpc[k] = "lock" /\ kpc'[k] = "top" /\ cap = "open"

\* C21: while a scan loop is active the keep-alive loop reads no frame: none
\* between a frame read of the scan and the exit of the scan, in any
\* interleaving of the two threads.
C21_KeepAlivePaused ==
    [][KeepAliveReads => spc \notin {"test", "setcode", "settime"}]_vars

(* ------------- claims on the pool's capacity and shutdown -------------- *)
\* close_all has returned and no thread is inside get_connection.
ShutDownAndQuiet ==
    /\ closeDone >= 1
    /\ \A k \in Closers : cpc[k] = "idle"
    /\ \A t \in Threads : tpc[t] = "idle"

\* C25: once close_all has returned and every get_connection scope has been
\* left, the queue is empty and every connection the pool created is closed.
C25_NothingLeftOpen ==
    ShutDownAndQuiet =>
        /\ queue = <<>>
        /\ \A c \in ConnIds : connState[c] \in {"unopened", "closed"}

\* The threads whose finally clause has closed its connection and has yet to
\* queue the replacement (lines 119-123).
Replacing == {t \in Threads : tpc[t] = "replace"}

\* C26: while the pool is open, the connections queued, those checked out
\* and those being replaced number pool_size in every state: the capacity
\* of the pool never shrinks.
C26_CapacityConserved ==
    ~closed =>
        Len(queue) + Cardinality(CheckedOut) + Cardinality(Replacing) = PoolSize

\* C27: every get_connection call that waits for a connection eventually
\* gets one or raises, when every scope that holds a connection is left.
C27_GetConnectionReturns ==
    \A t \in Threads : [](tpc[t] = "get" => <>(tpc[t] # "get"))

(* ------------------- claims on rows that do not parse ------------------ *)
\* The stored rows that do not parse into a valid item: the expiry_date is
\* no date, or Item(...) refuses the columns.
Damaged ==
    {id \in DOMAIN items :
        items[id].expiry_date = CorruptDate \/ id \notin Readable}

\* The rows each list query selects, by the columns as they are stored.
Selected(op, arg) ==
    IF op = "get_all" THEN DOMAIN items
    ELSE IF op = "get_expiring_soon"
      THEN {id \in DOMAIN items : /\ today <= items[id].expiry_date
                                  /\ items[id].expiry_date <= today + arg}
    ELSE IF op = "get_expired"
      THEN {id \in DOMAIN items : items[id].expiry_date < today}
    ELSE IF op = "get_opened"
      THEN {id \in DOMAIN items : items[id].is_opened}
    ELSE {id \in DOMAIN items : arg = "" \/ items[id].name = arg}

ListOps == {"get_all", "get_expiring_soon", "get_expired", "get_opened", "search"}

\* C24: every list query (get_all, get_expiring_soon, get_expired,
\* get_opened, search) leaves out each row that does not parse into a valid
\* item, a row with a corrupted expiry date for one, and still returns the
\* other rows it selects.
C24_DamagedRowsSkipped ==
    [][reply'.op \in ListOps =>
          LET out == {reply'.out[i] : i \in 1..Len(reply'.out)}
          IN out = Selected(reply'.op, reply'.arg) \ Damaged]_vars


(* --------- toggle_opened_status called by several threads at once ------- *)
\* How many toggle_opened_status calls are made in a run.
MaxToggles == 3

\* The toggle_opened_status calls made so far: returned True, or under way.
TogglesBegun ==
    LET RECURSIVE Sum(_)
        Sum(S) == IF S = {} THEN 0
                  ELSE LET id == CHOOSE x \in S : TRUE
                       IN toggledTrue[id] + Sum(S \ {id})
    IN Sum(ItemIds) + Cardinality({t \in Togglers : togglePc[t] = "update"})

\* toggle_opened_status(item_id), lines 357-360: item = self.get_by_id(item_id)
\* in a connection scope of its own; without an item the call returns False.
ToggleGetById(t) ==
    \E id \in ItemIds :
        /\ togglePc[t] = "idle"
        /\ TogglesBegun < MaxToggles
        /\ CanGetConnection
        /\ toggleItem' = [toggleItem EXCEPT ![t] = ItemById(id)]
        /\ IF ItemById(id) = ValueError
             THEN /\ reply' = Returned("toggle_opened_status", id, FALSE)
                  /\ UNCHANGED togglePc
             ELSE /\ togglePc' = [togglePc EXCEPT ![t] = "update"]
                  /\ UNCHANGED reply
        /\ SetDb(AfterRead(Db, FALSE))
        /\ UNCHANGED <<today, items, nextItemId, toggledTrue, dpc, camVars, barcodeVars>>

\* toggle_opened_status, lines 362-369: the flag of the local item is
\* flipped and self.update(item) writes the item in a second connection
\* scope; what update returns is returned.
ToggleUpdate(t) ==
    LET u == UpdateRow(Toggled(toggleItem[t]), Db)
    IN /\ togglePc[t] = "update"
       /\ CanGetConnection
       /\ items' = u.items
       /\ reply' = Returned("toggle_opened_status", toggleItem[t].id, u.ok)
       /\ toggledTrue' = IF u.ok
                           THEN [toggledTrue EXCEPT ![toggleItem[t].id] = @ + 1]
                         ELSE toggledTrue
       /\ togglePc' = [togglePc EXCEPT ![t] = "idle"]
       /\ SetDb(u.db)
       /\ UNCHANGED <<today, nextItemId, toggleItem, dpc, camVars, barcodeVars>>

\* MaxItems stored items, none of them opened.
ToggleInit ==
    /\ PoolInit /\ avail = {0} /\ CamConstructed
    /\ today = 0
    /\ items = [id \in ItemIds |-> Row(ItemNew(id, "a", MaxDay, FALSE, NoDate))]
    /\ nextItemId = MaxItems + 1
    /\ reply = NoReply
    /\ writer = NoConn
    /\ BarcodeInit
    /\ TogglesIdle

\* Threads toggle the stored items while the days pass.
ToggleNext ==
    \/ \E t \in Togglers : ToggleGetById(t)
    \/ \E t \in Togglers : ToggleUpdate(t)
    \/ NextDay

SpecToggle == ToggleInit /\ [][ToggleNext]_vars

\* C30: toggle_opened_status is atomic with respect to other toggles of
\* the same item: once k calls on an item that started unopened have
\* returned True and none is under way, the stored flag has been flipped k
\* times, so it is set exactly when k is odd.
C30_TogglesAllCount ==
    (\A t \in Togglers : togglePc[t] = "idle")
        => \A id \in DOMAIN items :
               items[id].is_opened = (toggledTrue[id] % 2 = 1)


(* ------------- the device handle and the lock, thread by thread --------- *)
\* The threads whose lock block tests and reads the handle: keep_alive_loop
\* (lines 226-239), scan_barcode_sync (318-323), _continuous_scan_loop
\* (427-430), get_frame (480-487).
HandleReaders == {"keep_alive", "scan", "continuous", "get_frame"}
\* The threads that call start_camera as a lock block of their own:
\* scan_barcode_sync (lines 305-307), _continuous_scan_loop (416-417) and a
\* direct caller; the keep-alive loop calls it inside its read block (237).
HandleStarters == {"scan", "continuous", "start_camera"}

\* The threads that decode the frame they read once they have left the
\* lock block: scan_barcode_sync (lines 325-366), _continuous_scan_loop
\* (lines 432-457).
FrameDecoders == {"scan", "continuous"}

\* What these steps leave alone.
deviceRest == <<startResult, keep_alive_running, scan_in_progress, scan_callback,
                last_barcode, sinceLast, kpc, cpcx, spc, scanTimedOut, stopFlag,
                mpc, scanDisturbed, contStopAsked, closedSince, sdecoded, sage,
                cframe, cage, togglePc, toggleItem, toggledTrue, poolVars,
                repoVars>>

\* Thread t leaves its outermost `with self._lock` block.
LeaveLock(t) ==
    /\ dpc' = [dpc EXCEPT ![t] = "out"]
    /\ rlock' = "free"

\* Thread t is in no lock block: before its call, or decoding a frame.
Unlocked(t) == dpc[t] \in {"out", "decode"}

\* A read block entered without waiting for the lock.
EnterReadNoLock(t) ==
    /\ t \in HandleReaders
    /\ Unlocked(t)
    /\ dpc' = [dpc EXCEPT ![t] = "check"]
    /\ UNCHANGED <<avail, cap, rlock, camera_index, is_running, deviceRest>>

\* `with self._lock:` of a read block: the thread waits until the RLock of
\* line 96 is free and takes it.
EnterRead(t) ==
    /\ t \in HandleReaders
    /\ Unlocked(t)
    /\ rlock = "free"
    /\ rlock' = t
    /\ dpc' = [dpc EXCEPT ![t] = "check"]
    /\ UNCHANGED <<avail, cap, camera_index, is_running, deviceRest>>

\* `if self.cap and self.cap.isOpened()` with the lock held: on an open
\* handle the thread goes on to read; on another, the keep-alive loop calls
\* start_camera (line 237, the RLock it holds lets it in) and the others
\* leave the block.
CheckHandle(t) ==
    /\ dpc[t] = "check"
    /\ IF cap = "open"
         THEN /\ dpc' = [dpc EXCEPT ![t] = "read"]
              /\ UNCHANGED rlock
       ELSE IF t = "keep_alive"
         THEN /\ dpc' = [dpc EXCEPT ![t] = "start"]
              /\ UNCHANGED rlock
         ELSE LeaveLock(t)
    /\ UNCHANGED <<avail, cap, camera_index, is_running, deviceRest>>

\* self.cap.read() returns (lines 229, 320, 429, 482) and the block ends;
\* the scans go on to decode the frame.
ReadFrame(t) ==
    /\ dpc[t] = "read"
    /\ dpc' = [dpc EXCEPT ![t] = IF t \in FrameDecoders THEN "decode" ELSE "out"]
    /\ rlock' = "free"
    /\ UNCHANGED <<avail, cap, camera_index, is_running, deviceRest>>

\* A scan ends after a frame: scan_barcode_sync returns (lines 369, 374),
\* the continuous loop is left (line 426).
LeaveLoop(t) ==
    /\ dpc[t] = "decode"
    /\ dpc' = [dpc EXCEPT ![t] = "out"]
    /\ UNCHANGED <<avail, cap, rlock, camera_index, is_running, deviceRest>>

\* start_camera called outside a lock block: `with self._lock:` (line 142).
EnterStart(t) ==
    /\ t \in HandleStarters
    /\ dpc[t] = "out"
    /\ rlock = "free"
    /\ rlock' = t
    /\ dpc' = [dpc EXCEPT ![t] = "start"]
    /\ UNCHANGED <<avail, cap, camera_index, is_running, deviceRest>>

\* start_camera, lines 143-153: an open handle is kept and True returned; a
\* handle that is not open is released first; without one the device is
\* opened.
StartTest(t) ==
    /\ dpc[t] = "start"
    /\ IF cap = "open"
         THEN /\ LeaveLock(t)
              /\ UNCHANGED cap
       ELSE IF cap # "none"
         THEN /\ dpc' = [dpc EXCEPT ![t] = "release"]
              /\ cap' = "released"
              /\ UNCHANGED rlock
         ELSE /\ dpc' = [dpc EXCEPT ![t] = "open"]
              /\ UNCHANGED <<cap, rlock>>
    /\ UNCHANGED <<avail, camera_index, is_running, deviceRest>>

\* self.cap.release() returns (line 150), self.cap = None (line 153).
StartRelease(t) ==
    /\ dpc[t] = "release"
    /\ cap' = "none"
    /\ dpc' = [dpc EXCEPT ![t] = "open"]
    /\ UNCHANGED <<avail, rlock, camera_index, is_running, deviceRest>>

\* Lines 156-196: _open_camera on the configured index and the alternates;
\* with a handle is_running is set and True returned, without one
\* CameraError is raised, and the lock block is left either way.
StartOpen(t) ==
    /\ dpc[t] = "open"
    /\ IF OpenIndex # -1
         THEN /\ cap' = "open"
              /\ camera_index' = OpenIndex
              /\ is_running' = TRUE
         ELSE /\ cap' = "none"
              /\ UNCHANGED <<camera_index, is_running>>
    /\ LeaveLock(t)
    /\ UNCHANGED <<avail, deviceRest>>

\* stop_camera, lines 264-265: `with self._lock:`, is_running = False.
EnterStop ==
    /\ dpc["stop_camera"] = "out"
    /\ rlock = "free"
    /\ rlock' = "stop_camera"
    /\ is_running' = FALSE
    /\ dpc' = [dpc EXCEPT !["stop_camera"] = "stop"]
    /\ UNCHANGED <<avail, cap, camera_index, deviceRest>>

\* stop_camera, lines 272-274: `if self.cap:` and the call of release.
StopTest ==
    /\ dpc["stop_camera"] = "stop"
    /\ IF cap # "none"
         THEN /\ dpc' = [dpc EXCEPT !["stop_camera"] = "stop_release"]
              /\ cap' = "released"
              /\ UNCHANGED rlock
         ELSE /\ LeaveLock("stop_camera")
              /\ UNCHANGED cap
    /\ UNCHANGED <<avail, camera_index, is_running, deviceRest>>

\* self.cap.release() returns, self.cap = None (lines 274-279).
StopRelease ==
    /\ dpc["stop_camera"] = "stop_release"
    /\ cap' = "none"
    /\ LeaveLock("stop_camera")
    /\ UNCHANGED <<avail, camera_index, is_running, deviceRest>>

\* The threads run their lock blocks in any order, as often as they like
\* (the flags of the service only decide when), while devices come and go.
DeviceNext ==
    \/ \E t \in DeviceThreads : EnterRead(t)
    \/ \E t \in DeviceThreads : CheckHandle(t)
    \/ \E t \in DeviceThreads : ReadFrame(t)
    \/ \E t \in DeviceThreads : LeaveLoop(t)
    \/ \E t \in DeviceThreads : EnterStart(t)
    \/ \E t \in DeviceThreads : StartTest(t)
    \/ \E t \in DeviceThreads : StartRelease(t)
    \/ \E t \in DeviceThreads : StartOpen(t)
    \/ EnterStop
    \/ StopTest
    \/ StopRelease
    \/ DeviceChange

SpecDevice == CameraInit /\ [][DeviceNext]_vars

\* The threads inside a call on the handle: _open_camera, read, release.
OnHandle == {t \in DeviceThreads :
                dpc[t] \in {"open", "read", "release", "stop_release"}}

\* C22: the handle is used under the device lock only: no two threads are
\* opening, reading or releasing it at the same time, a thread inside a
\* lock block is the holder of the lock, and no thread reads a handle that
\* has been released or dropped.
C22_HandleSerialized ==
    /\ Cardinality(OnHandle) <= 1
    /\ \A t \in DeviceThreads : ~Unlocked(t) => rlock = t
    /\ \A t \in DeviceThreads : dpc[t] = "read" => cap \notin {"none", "released"}

\* get_frame reads a handle opened on an alternate index while both scans
\* decode the frames they read before.
C22_Witness ==
    /\ dpc["get_frame"] = "read"
    /\ rlock = "get_frame"
    /\ cap = "open"
    /\ camera_index # 0
    /\ \A t \in FrameDecoders : dpc[t] = "decode"

=============================================================================
